---- MODULE Spec2Model ----
(***************************************************************************)
(* Verification model of skorobogatov/protosmt.                            *)
(*                                                                         *)
(*   SpecMem : the transactional memory of smt/util/transactional.py, an   *)
(*             arena holding one cell (a Set, a Map or a value cell).      *)
(*   SpecSat : the CDCL engine of smt/logic/dpll.py, from clause           *)
(*             construction to the verdict of Model.solve.                 *)
(***************************************************************************)
EXTENDS Integers, Sequences, FiniteSets, TLC

VARIABLES
    \* ---- transactional memory (smt/util/transactional.py) ----
    kind,       \* type of the cell that lives on the arena: "set", "map", "cell"
    ts,         \* Memory.transactions: sequence of [id, chunk, snap]
    tindex,     \* Transaction.__index of every handle ever created
    nextId,     \* number of Transaction objects created so far
    plain,      \* history: a plain container that received the same operations
                \* (after a rollback: the contents the cell shows then)
    used,       \* history: kinds of transaction endings seen so far
    last,       \* history: the last commit/rollback call and its outcome
    \* ---- CDCL engine (smt/logic/dpll.py) ----
    pc,         \* position in Model.__init__ / Model.solve
    clauses,    \* Model.__clauses
    counter,    \* Model.__literals: sequence of <<literal, count>>, insertion order
    wlit,       \* Watch.literal of both watches of every clause
    watches,    \* Literal.watches
    pos,        \* LiteralPos cells (index, link, antecedent) of every variable
    asg,        \* Assignment: literals, border, top_decision and the cursor (i, j)
    learnt,     \* Model.__learnt_clauses
    cur,        \* the clause / analysis result the main loop is working on
    status,     \* Model.status
    failure,    \* the assertion or exception that stopped the solve
    \* ---- expression kernel (smt/logic/symbols_base.py, builtin_symbols.py) ----
    call,       \* the last operation of the kernel: operation, symbol, arguments, result
    \* ---- SMT-LIB interpreter (smt/interpreters/smtlib.py) ----
    transactions, \* Memory.transactions of Smtlib.__mem: what every open transaction
                  \* holds of SymbolTable's two mappings and of Smtlib.__assertions
    ms,         \* MessageSet: the texts of the messages reported so far
    printed,    \* the lines written to standard output, in order
    model,      \* Smtlib.__model: <<>> for None, else the solved Model in a tuple
    serial,     \* the number of Unique objects created that are not cached
    raised,     \* the exception that left Smtlib.execute, "None" when none did
    executed    \* the number of commands executed

memVars == <<kind, ts, tindex, nextId, plain, used, last>>
satVars == <<pc, clauses, counter, wlit, watches, pos, asg, learnt, cur, status, failure>>
kerVars == <<call>>
smtVars == <<transactions, ms, printed, model, serial, raised, executed>>
vars == <<kind, ts, tindex, nextId, plain, used, last,
          pc, clauses, counter, wlit, watches, pos, asg, learnt, cur, status, failure,
          call,
          transactions, ms, printed, model, serial, raised, executed>>

(***************************************************************************)
(* Bounds                                                                  *)
(***************************************************************************)
MaxKey == 2
MaxVal == 2
MaxDepth == 3
MaxTx == 2
NumVars == 3
MaxLen == 3
MaxClauses == 4
MaxMade == 1

Keys == 1..MaxKey
Vals == 1..MaxVal
None == 0
StopIteration == -1

(***************************************************************************)
(* Transactional memory                                                    *)
(***************************************************************************)

\* _SetChunk.__init__ / _MappingChunk.__init__ / _ValueChunk
_create_chunk ==
    CASE kind = "set" -> [added |-> {}, removed |-> {}]
      [] kind = "map" -> [removed |-> {}, unique |-> <<>>, overriding |-> <<>>]
      [] OTHER        -> [value |-> None]

\* dict helpers: a dict is a function whose domain is its key set
DictSet(d, k, v) == [x \in (DOMAIN d) \cup {k} |-> IF x = k THEN v ELSE d[x]]
DictDel(d, k) == [x \in (DOMAIN d) \ {k} |-> d[x]]

\* _TransactionalBase._get_top_chunk: <<>> stands for "no chunk"
_get_top_chunk(stack) == stack[Len(stack)].chunk

\* _TransactionalBase._force_get_top_chunk: the chunk the write will modify
_force_get_top_chunk(stack) ==
    IF _get_top_chunk(stack) = <<>> THEN _create_chunk ELSE _get_top_chunk(stack)[1]

SetTopChunk(stack, c) == [stack EXCEPT ![Len(stack)].chunk = <<c>>]

\* TransactionalSet.__contains__ over the first n transactions, top first
RECURSIVE SetContains(_, _, _)
SetContains(stack, n, x) ==
    IF n = 0 THEN FALSE
    ELSE IF stack[n].chunk = <<>> THEN SetContains(stack, n - 1, x)
    ELSE IF x \in stack[n].chunk[1].added THEN TRUE
    ELSE IF x \in stack[n].chunk[1].removed THEN FALSE
    ELSE SetContains(stack, n - 1, x)

\* TransactionalSet.__len__ that counts the added elements only
RECURSIVE SetLen_added(_, _)
SetLen_added(stack, n) ==
    IF n = 0 THEN 0
    ELSE IF stack[n].chunk = <<>> THEN SetLen_added(stack, n - 1)
    ELSE Cardinality(stack[n].chunk[1].added) + SetLen_added(stack, n - 1)

\* TransactionalSet.__len__
RECURSIVE SetLen(_, _)
SetLen(stack, n) ==
    IF n = 0 THEN 0
    ELSE IF stack[n].chunk = <<>> THEN SetLen(stack, n - 1)
    ELSE Cardinality(stack[n].chunk[1].added) - Cardinality(stack[n].chunk[1].removed)
         + SetLen(stack, n - 1)

\* TransactionalSet.__iter__: how many times each key is yielded
RECURSIVE SetIter(_, _, _)
SetIter(stack, n, removed) ==
    IF n = 0 THEN [k \in Keys |-> 0]
    ELSE IF stack[n].chunk = <<>> THEN SetIter(stack, n - 1, removed)
    ELSE LET c == stack[n].chunk[1]
             rest == SetIter(stack, n - 1, removed \cup c.removed)
         IN [k \in Keys |-> rest[k] + (IF k \in c.added /\ k \notin removed THEN 1 ELSE 0)]

\* TransactionalMapping.__getitem__; None stands for KeyError
RECURSIVE MapGet(_, _, _)
MapGet(stack, n, k) ==
    IF n = 0 THEN None
    ELSE IF stack[n].chunk = <<>> THEN MapGet(stack, n - 1, k)
    ELSE LET c == stack[n].chunk[1] IN
         IF k \in c.removed THEN None
         ELSE IF k \in DOMAIN c.unique THEN c.unique[k]
         ELSE IF k \in DOMAIN c.overriding THEN c.overriding[k]
         ELSE MapGet(stack, n - 1, k)

\* Mapping.__contains__ (try self[k] except KeyError)
MapContains(stack, k) == MapGet(stack, Len(stack), k) # None

\* TransactionalMapping.__len__
RECURSIVE MapLen(_, _)
MapLen(stack, n) ==
    IF n = 0 THEN 0
    ELSE IF stack[n].chunk = <<>> THEN MapLen(stack, n - 1)
    ELSE Cardinality(DOMAIN stack[n].chunk[1].unique) - Cardinality(stack[n].chunk[1].removed)
         + MapLen(stack, n - 1)

\* TransactionalMapping.__iter__: how many times each key is yielded
RECURSIVE MapIter(_, _, _)
MapIter(stack, n, removed) ==
    IF n = 0 THEN [k \in Keys |-> 0]
    ELSE IF stack[n].chunk = <<>> THEN MapIter(stack, n - 1, removed)
    ELSE LET c == stack[n].chunk[1]
             rest == MapIter(stack, n - 1, removed \cup c.removed)
         IN [k \in Keys |-> rest[k] + (IF k \in DOMAIN c.unique /\ k \notin removed THEN 1 ELSE 0)]

\* Transactional.value (getter): next(self._get_chunks()).value
RECURSIVE CellValue(_, _)
CellValue(stack, n) ==
    IF n = 0 THEN StopIteration
    ELSE IF stack[n].chunk = <<>> THEN CellValue(stack, n - 1)
    ELSE stack[n].chunk[1].value

\* what a client can observe of the cell: membership, length, iteration, values
ViewOf(stack) ==
    CASE kind = "set" ->
           [members |-> {x \in Keys : SetContains(stack, Len(stack), x)},
            len |-> SetLen(stack, Len(stack)),
            iter |-> SetIter(stack, Len(stack), {})]
      [] kind = "map" ->
           [items |-> [k \in {x \in Keys : MapContains(stack, x)} |-> MapGet(stack, Len(stack), k)],
            len |-> MapLen(stack, Len(stack)),
            iter |-> MapIter(stack, Len(stack), {})]
      [] OTHER -> [value |-> CellValue(stack, Len(stack))]

View == ViewOf(ts)

\* the same observations made on a plain set / dict / variable
PlainView ==
    CASE kind = "set" ->
           [members |-> plain, len |-> Cardinality(plain),
            iter |-> [k \in Keys |-> IF k \in plain THEN 1 ELSE 0]]
      [] kind = "map" ->
           [items |-> plain, len |-> Cardinality(DOMAIN plain),
            iter |-> [k \in Keys |-> IF k \in DOMAIN plain THEN 1 ELSE 0]]
      [] OTHER -> [value |-> plain]

\* the contents a view shows: the member set, the items, the value
Contents(view) ==
    CASE kind = "set" -> view.members
      [] kind = "map" -> view.items
      [] OTHER        -> IF view.value = StopIteration THEN None ELSE view.value

\* the keys (for a value cell: the values) that a rollback made disappear or change
Undone(before, after) ==
    CASE kind = "set" -> {k \in Keys : (k \in before.members) # (k \in after.members)}
      [] kind = "map" -> {k \in Keys : (k \in DOMAIN before.items) # (k \in DOMAIN after.items)
                                       \/ (k \in DOMAIN before.items /\ before.items[k] # after.items[k])}
      [] OTHER        -> IF before = after THEN {} ELSE {before.value}

\* history record of a call: operation, handle id (or value written), outcome,
\* and for a Map commit the keys that were removed below and inserted above
Call(op, id, err, note) == [op |-> op, id |-> id, err |-> err, note |-> note]
NoCall == Call("none", 0, "none", {})

\* no interpreter is built while the other components are exercised
SmtIdle ==
    /\ transactions = <<>>
    /\ ms = {}
    /\ printed = <<>>
    /\ model = <<>>
    /\ serial = 0
    /\ raised = "None"
    /\ executed = 0

\* no expression is built while the memory or the engine is exercised
KerIdle == call = [op |-> "none", symbol |-> <<>>, args |-> <<>>, result |-> <<>>]

\* no engine is built while the memory is exercised
SatIdle ==
    /\ pc = "idle"
    /\ clauses = {}
    /\ counter = <<>>
    /\ wlit = <<>>
    /\ watches = <<>>
    /\ pos = <<>>
    /\ asg = <<>>
    /\ learnt = {}
    /\ cur = <<>>
    /\ status = "None"
    /\ failure = "None"

\* Memory.__init__ followed by the construction of the cell on the base transaction
MemInit ==
    /\ kind \in {"set", "map", "cell"}
    /\ ts = <<[id |-> 0,
               chunk |-> IF kind = "cell" THEN <<[value |-> None]>> ELSE <<>>,
               snap |-> ViewOf(<<>>)]>>
    /\ tindex = [t \in 0..MaxTx |-> 0]
    /\ nextId = 1
    /\ plain = (CASE kind = "set" -> {} [] kind = "map" -> <<>> [] OTHER -> None)
    /\ used = {}
    /\ last = NoCall
    /\ SatIdle
    /\ KerIdle
    /\ SmtIdle

\* Memory.begin_transaction
begin_transaction ==
    /\ Len(ts) < MaxDepth
    /\ nextId <= MaxTx
    /\ ts' = Append(ts, [id |-> nextId, chunk |-> <<>>, snap |-> View])
    /\ tindex' = [tindex EXCEPT ![nextId] = Len(ts)]
    /\ nextId' = nextId + 1
    /\ last' = NoCall
    /\ UNCHANGED <<kind, plain, used>>
    /\ UNCHANGED <<satVars, kerVars, smtVars>>

\* TransactionalSet.add
add(x) ==
    /\ kind = "set"
    /\ IF SetContains(ts, Len(ts), x)
       THEN UNCHANGED <<ts, plain>> /\ last' = NoCall
       ELSE IF Len(ts) = 0
       THEN UNCHANGED <<ts, plain>> /\ last' = Call("add", 0, "IndexError", {})
       ELSE LET chunk == _force_get_top_chunk(ts) IN
            /\ ts' = SetTopChunk(ts,
                       IF x \in chunk.removed
                       THEN [chunk EXCEPT !.removed = @ \ {x}]
                       ELSE [chunk EXCEPT !.added = @ \cup {x}])
            /\ plain' = plain \cup {x}
            /\ last' = NoCall
    /\ UNCHANGED <<kind, tindex, nextId, used>>
    /\ UNCHANGED <<satVars, kerVars, smtVars>>

\* TransactionalSet.discard
discard(x) ==
    /\ kind = "set"
    /\ IF ~SetContains(ts, Len(ts), x)
       THEN UNCHANGED <<ts, plain>>
       ELSE LET chunk == _force_get_top_chunk(ts) IN
            /\ ts' = SetTopChunk(ts,
                       IF x \in chunk.added
                       THEN [chunk EXCEPT !.added = @ \ {x}]
                       ELSE [chunk EXCEPT !.removed = @ \cup {x}])
            /\ plain' = plain \ {x}
    /\ last' = NoCall
    /\ UNCHANGED <<kind, tindex, nextId, used>>
    /\ UNCHANGED <<satVars, kerVars, smtVars>>

\* TransactionalMapping.__setitem__
setitem(k, v) ==
    /\ kind = "map"
    /\ IF Len(ts) = 0
       THEN UNCHANGED <<ts, plain>> /\ last' = Call("setitem", 0, "IndexError", {})
       ELSE LET chunk == [_force_get_top_chunk(ts) EXCEPT !.removed = @ \ {k}]
                stack == SetTopChunk(ts, chunk)
            IN /\ ts' = SetTopChunk(ts,
                          IF MapContains(stack, k) /\ k \notin DOMAIN chunk.unique
                          THEN [chunk EXCEPT !.overriding = DictSet(@, k, v)]
                          ELSE [chunk EXCEPT !.unique = DictSet(@, k, v)])
               /\ plain' = DictSet(plain, k, v)
               /\ last' = NoCall
    /\ UNCHANGED <<kind, tindex, nextId, used>>
    /\ UNCHANGED <<satVars, kerVars, smtVars>>

\* TransactionalMapping.__delitem__
delitem(k) ==
    /\ kind = "map"
    /\ IF Len(ts) = 0
       THEN UNCHANGED <<ts, plain>> /\ last' = Call("delitem", 0, "IndexError", {})
       ELSE LET chunk == _force_get_top_chunk(ts)
                stack == SetTopChunk(ts, chunk)
            IN IF k \in DOMAIN chunk.unique
               THEN /\ ts' = SetTopChunk(ts, [chunk EXCEPT !.unique = DictDel(@, k)])
                    /\ plain' = DictDel(plain, k)
                    /\ last' = NoCall
               ELSE IF MapContains(stack, k)
               THEN /\ ts' = SetTopChunk(ts, [chunk EXCEPT !.overriding = DictDel(@, k),
                                                          !.removed = @ \cup {k}])
                    /\ plain' = DictDel(plain, k)
                    /\ last' = NoCall
               ELSE /\ ts' = stack
                    /\ plain' = plain
                    /\ last' = Call("delitem", 0, "KeyError", {})
    /\ UNCHANGED <<kind, tindex, nextId, used>>
    /\ UNCHANGED <<satVars, kerVars, smtVars>>

\* Transactional.value (setter)
write(v) ==
    /\ kind = "cell"
    /\ IF Len(ts) = 0
       THEN UNCHANGED <<ts, plain>> /\ last' = Call("write", 0, "IndexError", {})
       ELSE /\ ts' = SetTopChunk(ts, [_force_get_top_chunk(ts) EXCEPT !.value = v])
            /\ plain' = v
            /\ last' = Call("write", v, "none", {})
    /\ UNCHANGED <<kind, tindex, nextId, used>>
    /\ UNCHANGED <<satVars, kerVars, smtVars>>

\* the assertion of _SetChunk.update
SetUpdateAssert(self, chunk) ==
    /\ self.added \cap chunk.added = {}
    /\ self.removed \cap chunk.removed = {}

\* _SetChunk.update
SetUpdate(self, chunk) ==
    LET common == self.added \cap chunk.removed
    IN [added |-> (self.added \cup chunk.added) \ common,
        removed |-> (self.removed \cup chunk.removed) \ common]

\* _MappingChunk.update: the three loops, one after the other
MapUpdateRemoved(self, chunk) ==
    [removed |-> self.removed \cup {k \in chunk.removed : k \notin DOMAIN self.unique},
     unique |-> [k \in (DOMAIN self.unique) \ chunk.removed |-> self.unique[k]],
     overriding |-> [k \in (DOMAIN self.overriding)
                             \ {x \in chunk.removed : x \notin DOMAIN self.unique}
                     |-> self.overriding[k]]]

MapUpdateUnique_noDemote(self, chunk) ==
    [removed |-> self.removed,
     unique |-> [k \in (DOMAIN self.unique) \cup (DOMAIN chunk.unique) |->
                   IF k \in DOMAIN chunk.unique THEN chunk.unique[k] ELSE self.unique[k]],
     overriding |-> self.overriding]

MapUpdateUnique(self, chunk) ==
    LET demoted == (DOMAIN chunk.unique) \cap self.removed
        promoted == (DOMAIN chunk.unique) \ self.removed
    IN [removed |-> self.removed \ demoted,
        unique |-> [k \in (DOMAIN self.unique) \cup promoted |->
                      IF k \in promoted THEN chunk.unique[k] ELSE self.unique[k]],
        overriding |-> [k \in (DOMAIN self.overriding) \cup demoted |->
                      IF k \in demoted THEN chunk.unique[k] ELSE self.overriding[k]]]

MapUpdateOverriding(self, chunk) ==
    LET inUnique == (DOMAIN chunk.overriding) \cap (DOMAIN self.unique)
        others == (DOMAIN chunk.overriding) \ (DOMAIN self.unique)
    IN [removed |-> self.removed,
        unique |-> [k \in DOMAIN self.unique |->
                      IF k \in inUnique THEN chunk.overriding[k] ELSE self.unique[k]],
        overriding |-> [k \in (DOMAIN self.overriding) \cup others |->
                      IF k \in others THEN chunk.overriding[k] ELSE self.overriding[k]]]

MapUpdate(self, chunk) ==
    MapUpdateOverriding(MapUpdateUnique(MapUpdateRemoved(self, chunk), chunk), chunk)

\* _ValueChunk.update
ValueUpdate_keep(self, chunk) == [value |-> self.value]
ValueUpdate(self, chunk) == [value |-> chunk.value]

\* the body of the storage loop of Transaction.commit for the one handle
MergeChunk(prev, chunk) ==
    IF chunk = <<>> THEN prev
    ELSE IF prev = <<>> THEN chunk
    ELSE CASE kind = "set" -> <<SetUpdate(prev[1], chunk[1])>>
           [] kind = "map" -> <<MapUpdate(prev[1], chunk[1])>>
           [] OTHER        -> <<ValueUpdate(prev[1], chunk[1])>>

\* the assertion without the comparison of the transaction at the index
\* with the handle
HandleOnStack_index(t) == tindex[t] < Len(ts)

\* the assertion at the head of Transaction.commit / Transaction.rollback
HandleOnStack(t) == tindex[t] < Len(ts) /\ ts[tindex[t] + 1].id = t

\* a commit that drops the top transaction instead of the committed one
ShiftDown_drop(stack, i) == SubSeq(stack, 1, Len(stack) - 1)

\* the stack after the shift loop and truncate(-1) of Transaction.commit
ShiftDown(stack, i) ==
    [p \in 1..(Len(stack) - 1) |-> IF p < i THEN stack[p] ELSE stack[p + 1]]

\* Transaction.commit
commit(t) ==
    /\ t < nextId
    /\ IF ~(0 < tindex[t] /\ HandleOnStack(t))
       THEN /\ last' = Call("commit", t, "handle", {})
            /\ UNCHANGED <<ts, tindex, used>>
       ELSE LET i == tindex[t] + 1
                prev == ts[i - 1].chunk
                chunk == ts[i].chunk
            IN IF kind = "set" /\ prev # <<>> /\ chunk # <<>>
                  /\ ~SetUpdateAssert(prev[1], chunk[1])
               THEN /\ last' = Call("commit", t, "chunk", {})
                    /\ UNCHANGED <<ts, tindex, used>>
               ELSE /\ ts' = ShiftDown([ts EXCEPT ![i - 1].chunk = MergeChunk(prev, chunk)], i)
                    /\ tindex' = [h \in 0..MaxTx |->
                                    IF \E p \in (i + 1)..Len(ts) : ts[p].id = h
                                    THEN tindex[h] - 1 ELSE tindex[h]]
                    /\ used' = used \cup (IF i < Len(ts) THEN {"commit", "inner"} ELSE {"commit"})
                    /\ last' = Call("commit", t, "none",
                                     IF kind = "map" /\ prev # <<>> /\ chunk # <<>>
                                     THEN (DOMAIN chunk[1].unique) \cap prev[1].removed ELSE {})
    /\ UNCHANGED <<kind, nextId, plain>>
    /\ UNCHANGED <<satVars, kerVars, smtVars>>

\* Vector.truncate
truncate_keep(stack, index) == SubSeq(stack, 1, index + 1)
truncate(stack, index) == SubSeq(stack, 1, index)

\* Transaction.rollback
rollback(t) ==
    /\ t < nextId
    /\ IF ~HandleOnStack(t)
       THEN /\ last' = Call("rollback", t, "handle", {})
            /\ UNCHANGED <<ts, used, plain>>
       ELSE /\ ts' = truncate(ts, tindex[t])
            /\ used' = used \cup {"rollback"}
            /\ plain' = Contents(ViewOf(ts'))
            /\ last' = Call("rollback", t, "none", Undone(View, ViewOf(ts')))
    /\ UNCHANGED <<kind, tindex, nextId>>
    /\ UNCHANGED <<satVars, kerVars, smtVars>>

MemNext ==
    \/ begin_transaction
    \/ \E x \in Keys : add(x)
    \/ \E x \in Keys : discard(x)
    \/ \E k \in Keys, v \in Vals : setitem(k, v)
    \/ \E k \in Keys : delitem(k)
    \/ \E v \in Vals : write(v)
    \/ \E t \in 0..MaxTx : commit(t)
    \/ \E t \in 0..MaxTx : rollback(t)

SpecMem == MemInit /\ [][MemNext]_vars

(***************************************************************************)
(* CDCL engine                                                             *)
(***************************************************************************)

\* a literal is a non-zero integer, v for the expression of variable v and
\* -v for its negation; Literal(boolean(False)), the sentinel, is 0
Lits == {l \in (0 - NumVars)..NumVars : l # 0}
Sentinel == 0
NoLit == NumVars + 1

\* Literal(boolean(True)): the negation of the sentinel, a literal of no variable
TrueLit == 0 - (NumVars + 1)
NoClause == {}

\* the variable of a literal: LiteralPos is shared by a literal and its negation
Var(l) == IF l = TrueLit THEN 0 ELSE IF l < 0 THEN 0 - l ELSE l

\* Literal.negated
Neg(l) == IF l = Sentinel THEN TrueLit ELSE IF l = TrueLit THEN Sentinel ELSE 0 - l

\* Unique.__lt__ on literals: the expressions of NegatorSymbol (priority 0)
\* come before those of VariableSymbol (priority 2), then by serial number
Rank(l) == IF l < 0 THEN 0 - l ELSE NumVars + l

\* sorted(literals)
RECURSIVE SortedLits(_)
SortedLits(c) ==
    IF c = {} THEN <<>>
    ELSE LET m == CHOOSE l \in c : \A k \in c : Rank(l) <= Rank(k)
         IN <<m>> \o SortedLits(c \ {m})

\* comparison of two tuples of literals
RECURSIVE TupleLess(_, _)
TupleLess(s, t) ==
    IF s = <<>> THEN t # <<>>
    ELSE IF t = <<>> THEN FALSE
    ELSE IF Head(s) # Head(t) THEN Rank(Head(s)) < Rank(Head(t))
    ELSE TupleLess(Tail(s), Tail(t))

\* the order of the arguments of the top-level conjunction: literals come
\* before disjunctions, disjunctions are compared by their argument tuples
ClauseLess(c, d) ==
    IF Cardinality(c) = 1 /\ Cardinality(d) > 1 THEN TRUE
    ELSE IF Cardinality(c) > 1 /\ Cardinality(d) = 1 THEN FALSE
    ELSE TupleLess(SortedLits(c), SortedLits(d))

\* the clauses a formula can hold: no literal twice, no literal with its negation
AllClauses ==
    {c \in SUBSET Lits : c # {} /\ Cardinality(c) <= MaxLen /\ \A l \in c : (0 - l) \notin c}

\* the formulas to_cnf folds to a constant: the one clause of the literal of
\* boolean(False) or of boolean(True)
ConstClauses == {{Sentinel}, {TrueLit}}

\* the engine's objects as one value, for the operators below
Engine(a, p, w, wl) == [a |-> a, p |-> p, w |-> w, wl |-> wl, err |-> "None"]
Here == Engine(asg, pos, watches, wlit)

Count(literals) == Cardinality(DOMAIN literals)

\* Assignment.__getitem__: "T", "F", "U" (None), or "E" when its assertion fails
Val(S, lit) ==
    LET index == S.p.index[Var(lit)] IN
    IF ~(0 < index /\ index < Count(S.a.literals)
         /\ (S.a.literals[index] = lit \/ S.a.literals[index] = Neg(lit)))
    THEN "E"
    ELSE IF index < S.a.border
    THEN (IF S.a.literals[index] = Neg(lit) THEN "T" ELSE "F")
    ELSE "U"

\* Watch.literal.value; a watch is <<clause, master>>
WatchLit(S, w) == IF w[2] THEN S.wl[w[1]][1] ELSE S.wl[w[1]][2]

\* Watch.neighbour: the other watch of the clause, the watch itself for one literal
Neighbour(w) == IF Cardinality(w[1]) > 1 THEN <<w[1], ~w[2]>> ELSE w

\* assignment to Watch.literal.value
SetWatchLit(S, w, l) ==
    IF Cardinality(w[1]) = 1 THEN [S EXCEPT !.wl[w[1]] = <<l, l>>]
    ELSE IF w[2] THEN [S EXCEPT !.wl[w[1]][1] = l]
    ELSE [S EXCEPT !.wl[w[1]][2] = l]

\* the literals of a Watch.update that does not look at the neighbour watch
UpdateCandidates_any(S, w) == {l \in w[1] : Val(S, l) # "F"}

\* the literals of a Watch.update that moves the watch to true literals only
UpdateCandidates_true(S, w) ==
    {l \in w[1] : l # WatchLit(S, Neighbour(w)) /\ Val(S, l) = "T"}

\* the literals Watch.update may move the watch to
UpdateCandidates(S, w) ==
    {l \in w[1] : l # WatchLit(S, Neighbour(w)) /\ Val(S, l) # "F"}

\* Watch.update: the new engine, err set when the assertion fails, and
\* moved telling the result
update(S, w) ==
    IF Val(S, WatchLit(S, w)) # "F"
    THEN [S EXCEPT !.err = "Watch.update"] @@ [moved |-> FALSE]
    ELSE IF UpdateCandidates(S, w) = {}
    THEN S @@ [moved |-> FALSE]
    ELSE SetWatchLit(S, w, SortedLits(UpdateCandidates(S, w))[1]) @@ [moved |-> TRUE]

\* Clause.is_conflict that asks for two different watched literals
is_conflict_pair(S, c) ==
    /\ S.wl[c][1] # S.wl[c][2]
    /\ Val(S, S.wl[c][1]) = "F" /\ Val(S, S.wl[c][2]) = "F"

\* Clause.is_conflict
is_conflict(S, c) == Val(S, S.wl[c][1]) = "F" /\ Val(S, S.wl[c][2]) = "F"

\* Clause.derive without the case of a clause of one literal
derive_pair(S, c) ==
    LET p == S.wl[c][1]
        q == S.wl[c][2]
    IN IF Val(S, p) = "F" /\ Val(S, q) = "U" THEN q
       ELSE IF Val(S, q) = "F" /\ Val(S, p) = "U" THEN p
       ELSE NoLit

\* Clause.derive
derive(S, c) ==
    LET p == S.wl[c][1]
        q == S.wl[c][2]
    IN IF (Val(S, p) = "F" \/ p = q) /\ Val(S, q) = "U" THEN q
       ELSE IF Val(S, q) = "F" /\ Val(S, p) = "U" THEN p
       ELSE NoLit

\* VectorBase.append / VectorBase.remove_by_pop on a watch list
append(vec, e) == Append(vec, e)
remove_by_pop(vec, index) ==
    LET count == Len(vec) - 1
    IN IF index < count
       THEN [n \in 1..count |-> IF n = index + 1 THEN vec[count + 1] ELSE vec[n]]
       ELSE SubSeq(vec, 1, count)

\* Assignment.__place_literal that does not move the literal of the border
\* slot into the slot it takes the new literal from
place_literal_noswap(S, lit) ==
    IF Val(S, lit) # "U" THEN [S EXCEPT !.err = "place_literal"]
    ELSE LET border == S.a.border
             index == S.p.index[Var(lit)]
             border_lit == S.a.literals[border]
         IN IF index # border
            THEN [S EXCEPT !.a.literals = [@ EXCEPT ![border] = lit],
                           !.p.index = [@ EXCEPT ![Var(border_lit)] = index, ![Var(lit)] = border],
                           !.a.border = border + 1]
            ELSE [S EXCEPT !.a.literals = [@ EXCEPT ![border] = lit],
                           !.a.border = border + 1]

\* Assignment.__place_literal that does not store the new index of the
\* literal it moved out of the border slot
place_literal_noindex(S, lit) ==
    IF Val(S, lit) # "U" THEN [S EXCEPT !.err = "place_literal"]
    ELSE LET border == S.a.border
             index == S.p.index[Var(lit)]
             border_lit == S.a.literals[border]
         IN IF index # border
            THEN [S EXCEPT !.a.literals = [@ EXCEPT ![index] = border_lit, ![border] = lit],
                           !.p.index = [@ EXCEPT ![Var(lit)] = border],
                           !.a.border = border + 1]
            ELSE [S EXCEPT !.a.literals = [@ EXCEPT ![border] = lit],
                           !.a.border = border + 1]

\* Assignment.__place_literal
place_literal(S, lit) ==
    IF Val(S, lit) # "U" THEN [S EXCEPT !.err = "place_literal"]
    ELSE LET border == S.a.border
             index == S.p.index[Var(lit)]
             border_lit == S.a.literals[border]
         IN IF index # border
            THEN [S EXCEPT !.a.literals = [@ EXCEPT ![index] = border_lit, ![border] = lit],
                           !.p.index = [@ EXCEPT ![Var(border_lit)] = index, ![Var(lit)] = border],
                           !.a.border = border + 1]
            ELSE [S EXCEPT !.a.literals = [@ EXCEPT ![border] = lit],
                           !.a.border = border + 1]

\* Assignment.make_decision that does not link the former top decision to
\* the new one
make_decision_nolink(S, lit) ==
    LET P == place_literal(S, lit) IN
    IF P.err # "None" THEN P
    ELSE [P EXCEPT !.p.link = [@ EXCEPT ![Var(lit)] = lit],
                   !.p.antecedent = [@ EXCEPT ![Var(lit)] = NoClause],
                   !.a.top_decision = lit]

\* Assignment.make_decision
make_decision(S, lit) ==
    LET P == place_literal(S, lit) IN
    IF P.err # "None" THEN P
    ELSE [P EXCEPT !.p.link = [@ EXCEPT ![Var(lit)] = lit, ![Var(S.a.top_decision)] = lit],
                   !.p.antecedent = [@ EXCEPT ![Var(lit)] = NoClause],
                   !.a.top_decision = lit]

\* Assignment.make_implication that does not link the literal to the top
\* decision
make_implication_nolink(S, lit, antecedent) ==
    LET P == place_literal(S, lit) IN
    IF P.err # "None" THEN P
    ELSE [P EXCEPT !.p.antecedent = [@ EXCEPT ![Var(lit)] = antecedent]]

\* Assignment.make_implication
make_implication(S, lit, antecedent) ==
    LET P == place_literal(S, lit) IN
    IF P.err # "None" THEN P
    ELSE [P EXCEPT !.p.link = [@ EXCEPT ![Var(lit)] = S.a.top_decision],
                   !.p.antecedent = [@ EXCEPT ![Var(lit)] = antecedent]]

\* Assignment.get_suspicious_clause that steps to the next watch after it has
\* moved one, although remove_by_pop has put the last watch in its place
RECURSIVE get_suspicious_clause_skip(_)
get_suspicious_clause_skip(S) ==
    IF S.a.i = S.a.border THEN S @@ [ret |-> NoClause]
    ELSE LET lit == S.a.literals[S.a.i] IN
         IF S.a.j >= Len(S.w[lit])
         THEN get_suspicious_clause_skip([S EXCEPT !.a.i = @ + 1, !.a.j = 0])
         ELSE LET w == S.w[lit][S.a.j + 1]
                  w_lit == WatchLit(S, w)
                  U == update(S, w)
                  M == [a |-> U.a, p |-> U.p, w |-> U.w, wl |-> U.wl, err |-> U.err]
              IN IF U.err # "None" THEN M @@ [ret |-> NoClause]
                 ELSE IF ~U.moved THEN [M EXCEPT !.a.j = @ + 1] @@ [ret |-> w[1]]
                 ELSE IF S.a.j >= Len(S.w[w_lit])
                 THEN [M EXCEPT !.err = "IndexError"] @@ [ret |-> NoClause]
                 ELSE get_suspicious_clause_skip(
                        [M EXCEPT !.w = [[@ EXCEPT ![w_lit] = remove_by_pop(@, S.a.j)]
                                            EXCEPT ![WatchLit(M, w)] = append(@, w)],
                                  !.a.j = @ + 1])

\* Assignment.get_suspicious_clause: the engine after the call, with the
\* returned clause in ret (NoClause for None)
RECURSIVE get_suspicious_clause(_)
get_suspicious_clause(S) ==
    IF S.a.i = S.a.border THEN S @@ [ret |-> NoClause]
    ELSE LET lit == S.a.literals[S.a.i] IN
         IF S.a.j = Len(S.w[lit])
         THEN get_suspicious_clause([S EXCEPT !.a.i = @ + 1, !.a.j = 0])
         ELSE LET w == S.w[lit][S.a.j + 1]
                  w_lit == WatchLit(S, w)
                  U == update(S, w)
                  M == [a |-> U.a, p |-> U.p, w |-> U.w, wl |-> U.wl, err |-> U.err]
              IN IF U.err # "None" THEN M @@ [ret |-> NoClause]
                 ELSE IF ~U.moved THEN [M EXCEPT !.a.j = @ + 1] @@ [ret |-> w[1]]
                 ELSE IF S.a.j >= Len(S.w[w_lit])
                 THEN [M EXCEPT !.err = "IndexError"] @@ [ret |-> NoClause]
                 ELSE get_suspicious_clause(
                        [M EXCEPT !.w = [[@ EXCEPT ![w_lit] = remove_by_pop(@, S.a.j)]
                                            EXCEPT ![WatchLit(M, w)] = append(@, w)]])

\* push_literals of Assignment.analyze_conflict: the literals of c that are new
Fresh(c, visited) == {l \in c : l \notin visited /\ Neg(l) \notin visited}

\* the number push_literals returns: new literals linked to the top decision
TopCount(S, top, new) == Cardinality({l \in new : S.p.link[Var(l)] = top \/ l = top})

\* the while loop of Assignment.analyze_conflict; heap holds the pushed indices
RECURSIVE analyze_loop(_, _, _, _, _, _)
analyze_loop(S, top, heap, visited, count, res) ==
    IF heap = {} THEN [res |-> res, err |-> "None"]
    ELSE LET index == CHOOSE n \in heap : \A m \in heap : m <= n
             lit == S.a.literals[index]
         IN IF S.p.link[Var(lit)] # top \/ count = 1
            THEN analyze_loop(S, top, heap \ {index}, visited, count, Append(res, lit))
            ELSE IF S.p.antecedent[Var(lit)] = NoClause
            THEN [res |-> res, err |-> "analyze_conflict.antecedent"]
            ELSE LET new == Fresh(S.p.antecedent[Var(lit)], visited)
                 IN analyze_loop(S, top,
                                 (heap \ {index}) \cup {S.p.index[Var(l)] : l \in new},
                                 visited \cup new,
                                 count + TopCount(S, top, new) - 1,
                                 res)

\* Assignment.analyze_conflict
analyze_conflict(S, clause) ==
    IF ~is_conflict(S, clause) THEN [res |-> <<>>, err |-> "analyze_conflict.is_conflict"]
    ELSE analyze_loop(S, S.a.top_decision,
                      {S.p.index[Var(l)] : l \in clause}, clause,
                      TopCount(S, S.a.top_decision, clause), <<>>)

\* Assignment.backtrack that leaves the decision literal on the trail
backtrack_keep(S, lit) ==
    IF ~(Val(S, lit) = "F" /\ S.p.antecedent[Var(lit)] = NoClause)
    THEN [S EXCEPT !.err = "backtrack"]
    ELSE LET index == S.p.index[Var(lit)]
             last_ == S.a.literals[index - 1]
             top == IF S.p.link[Var(last_)] = lit THEN last_ ELSE S.p.link[Var(last_)]
         IN [S EXCEPT !.a.border = index + 1,
                      !.a.i = IF S.a.i >= index THEN index ELSE @,
                      !.a.j = IF S.a.i >= index THEN 0 ELSE @,
                      !.p.link = [@ EXCEPT ![Var(top)] = top],
                      !.a.top_decision = top]

\* Assignment.backtrack
backtrack(S, lit) ==
    IF ~(Val(S, lit) = "F" /\ S.p.antecedent[Var(lit)] = NoClause)
    THEN [S EXCEPT !.err = "backtrack"]
    ELSE LET index == S.p.index[Var(lit)]
             last_ == S.a.literals[index - 1]
             top == IF S.p.link[Var(last_)] = lit THEN last_ ELSE S.p.link[Var(last_)]
         IN [S EXCEPT !.a.border = index,
                      !.a.i = IF S.a.i >= index THEN index ELSE @,
                      !.a.j = IF S.a.i >= index THEN 0 ELSE @,
                      !.p.link = [@ EXCEPT ![Var(top)] = top],
                      !.a.top_decision = top]

\* Clause.__init__ behind the Unique cache: a clause that exists already is
\* returned as it is, a new one watches the first two literals it was given
Clause(S, literals) ==
    LET c == {literals[n] : n \in 1..Len(literals)} IN
    IF c \in DOMAIN S.wl THEN S
    ELSE IF Len(literals) = 1
    THEN [S EXCEPT !.wl = @ @@ (c :> <<literals[1], literals[1]>>),
                   !.w = [@ EXCEPT ![literals[1]] = append(@, <<c, TRUE>>)]]
    ELSE [S EXCEPT !.wl = @ @@ (c :> <<literals[1], literals[2]>>),
                   !.w = [[@ EXCEPT ![literals[1]] = append(@, <<c, TRUE>>)]
                             EXCEPT ![literals[2]] = append(@, <<c, FALSE>>)]]

\* Counter.__iadd__ on Model.__literals, which keeps insertion order
RECURSIVE CountLits(_, _)
CountLits(cnt, literals) ==
    IF literals = <<>> THEN cnt
    ELSE LET key == 0 - Var(Head(literals))
             at == {n \in 1..Len(cnt) : cnt[n][1] = key}
         IN CountLits(IF at = {} THEN Append(cnt, <<key, 1>>)
                      ELSE [cnt EXCEPT ![CHOOSE n \in at : TRUE][2] = @ + 1],
                      Tail(literals))

\* sorted(self.__literals.items(), key=lambda p: -p[1]): stable, highest count first
RECURSIVE SortedByCount(_)
SortedByCount(cnt) ==
    IF cnt = <<>> THEN <<>>
    ELSE LET n == CHOOSE n \in 1..Len(cnt) :
                    /\ \A m \in 1..Len(cnt) : cnt[m][2] <= cnt[n][2]
                    /\ \A m \in 1..(n - 1) : cnt[m][2] < cnt[n][2]
         IN <<cnt[n][1]>> \o SortedByCount(SubSeq(cnt, 1, n - 1) \o SubSeq(cnt, n + 1, Len(cnt)))

\* the state the actions of the engine leave the memory model in
MemIdle ==
    /\ kind = "none"
    /\ ts = <<>>
    /\ tindex = <<>>
    /\ nextId = 0
    /\ plain = {}
    /\ used = {}
    /\ last = NoCall

\* Model.__init__ up to the clause loop; the LiteralPos cells of all literals
SatInit ==
    /\ pc = "make_clause"
    /\ clauses = {}
    /\ counter = <<>>
    /\ wlit = <<>>
    /\ watches = [l \in Lits \cup {Sentinel, TrueLit} |-> <<>>]
    /\ pos = [index |-> [v \in 0..NumVars |-> 0],
              link |-> [v \in 0..NumVars |-> 0 - v],
              antecedent |-> [v \in 0..NumVars |-> NoClause]]
    /\ asg = [literals |-> <<>>, border |-> 0, top_decision |-> Sentinel, i |-> 0, j |-> 0]
    /\ learnt = {}
    /\ cur = [clause |-> NoClause, literals |-> <<>>]
    /\ status = "None"
    /\ failure = "None"
    /\ MemIdle
    /\ KerIdle
    /\ SmtIdle

\* the engine's objects become the next state
Becomes(S) ==
    /\ asg' = S.a
    /\ pos' = S.p
    /\ watches' = S.w
    /\ wlit' = S.wl

\* an assertion failed or an exception left Model.solve
Fails(err) ==
    /\ pc' = "failed"
    /\ failure' = err
    /\ UNCHANGED <<asg, pos, watches, wlit, learnt, cur, status>>

\* Model.__make_clause for one argument of the top-level conjunction
make_clause(c) ==
    /\ pc = "make_clause"
    /\ Cardinality(clauses) < MaxClauses
    /\ IF c \in ConstClauses THEN clauses = {}
       ELSE clauses \cap ConstClauses = {} /\ \A d \in clauses : ClauseLess(d, c)
    /\ counter' = CountLits(counter, SortedLits(c))
    /\ Becomes(Clause(Here, SortedLits(c)))
    /\ clauses' = clauses \cup {c}
    /\ UNCHANGED <<pc, learnt, cur, status, failure>>
    /\ UNCHANGED <<memVars, kerVars, smtVars>>

\* the rest of Model.__init__: Assignment.__init__ over the counted literals
new_assignment ==
    /\ pc = "make_clause"
    /\ clauses # {}
    /\ LET literals == SortedByCount(counter)
       IN /\ asg' = [literals |-> [n \in 0..Len(literals) |->
                                     IF n = 0 THEN Sentinel ELSE literals[n]],
                     border |-> 1, top_decision |-> Sentinel, i |-> 1, j |-> 0]
          /\ pos' = [pos EXCEPT !.index = [v \in 0..NumVars |->
                       IF \E n \in 1..Len(literals) : Var(literals[n]) = v
                       THEN CHOOSE n \in 1..Len(literals) : Var(literals[n]) = v
                       ELSE 0]]
    /\ pc' = "propagate"
    /\ UNCHANGED <<clauses, counter, wlit, watches, learnt, cur, status, failure>>
    /\ UNCHANGED <<memVars, kerVars, smtVars>>

\* Model.solve, inner loop: one call of get_suspicious_clause and what follows
\* it, up to the call of analyze_conflict
propagate ==
    /\ pc = "propagate"
    /\ LET R == get_suspicious_clause(Here)
           S == Engine(R.a, R.p, R.w, R.wl)
       IN IF R.err # "None" THEN Fails(R.err)
          ELSE IF R.ret = NoClause
          THEN Becomes(S) /\ pc' = "decide" /\ UNCHANGED <<learnt, cur, status, failure>>
          ELSE IF is_conflict(S, R.ret)
          THEN /\ Becomes(S)
               /\ pc' = "analyze"
               /\ cur' = [clause |-> R.ret, literals |-> <<>>]
               /\ UNCHANGED <<learnt, status, failure>>
          ELSE IF derive(S, R.ret) = NoLit
          THEN Becomes(S) /\ UNCHANGED <<pc, learnt, cur, status, failure>>
          ELSE LET I == make_implication(S, Neg(derive(S, R.ret)), R.ret)
               IN IF I.err # "None" THEN Fails(I.err)
                  ELSE Becomes(I) /\ UNCHANGED <<pc, learnt, cur, status, failure>>
    /\ UNCHANGED <<clauses, counter>>
    /\ UNCHANGED <<memVars, kerVars, smtVars>>

\* Model.solve: analyze_conflict and the UNSAT exit
analyze ==
    /\ pc = "analyze"
    /\ LET R == analyze_conflict(Here, cur.clause)
       IN IF R.err # "None" THEN Fails(R.err)
          ELSE IF R.res = <<>> THEN Fails("IndexError")
          ELSE IF Len(R.res) = 1 /\ pos.link[Var(R.res[1])] = Sentinel
          THEN /\ status' = "UNSAT"
               /\ pc' = "done"
               /\ cur' = [cur EXCEPT !.literals = R.res]
               /\ UNCHANGED <<asg, pos, watches, wlit, learnt, failure>>
          ELSE /\ cur' = [cur EXCEPT !.literals = R.res]
               /\ pc' = "backjump"
               /\ UNCHANGED <<asg, pos, watches, wlit, learnt, status, failure>>
    /\ UNCHANGED <<clauses, counter>>
    /\ UNCHANGED <<memVars, kerVars, smtVars>>

\* the literal Model.solve backtracks to; NoLit when it does not backtrack
backtrack_lit(S, literals) ==
    IF Len(literals) = 1
    THEN (IF S.p.link[Var(Sentinel)] # Sentinel THEN S.p.link[Var(Sentinel)] ELSE NoLit)
    ELSE LET y == literals[2] IN
         IF S.p.antecedent[Var(y)] = NoClause THEN S.p.link[Var(y)]
         ELSE S.p.link[Var(S.p.link[Var(y)])]

\* Model.solve: the backjump
backjump ==
    /\ pc = "backjump"
    /\ LET b == backtrack_lit(Here, cur.literals)
       IN IF b = NoLit
          THEN UNCHANGED <<asg, pos, watches, wlit, failure>> /\ pc' = "learn"
               /\ UNCHANGED <<learnt, cur, status>>
          ELSE IF Len(cur.literals) > 1 /\ b = Sentinel THEN Fails("solve.backtrack_lit")
          ELSE LET B == backtrack(Here, b)
               IN IF B.err # "None" THEN Fails(B.err)
                  ELSE Becomes(B) /\ pc' = "learn" /\ UNCHANGED <<learnt, cur, status, failure>>
    /\ UNCHANGED <<clauses, counter>>
    /\ UNCHANGED <<memVars, kerVars, smtVars>>

\* Model.solve: the asserting clause is built and recorded
learn ==
    /\ pc = "learn"
    /\ Becomes(Clause(Here, cur.literals))
    /\ learnt' = learnt \cup {{cur.literals[n] : n \in 1..Len(cur.literals)}}
    /\ cur' = [cur EXCEPT !.clause = {cur.literals[n] : n \in 1..Len(cur.literals)}]
    /\ pc' = "imply"
    /\ UNCHANGED <<clauses, counter, status, failure>>
    /\ UNCHANGED <<memVars, kerVars, smtVars>>

\* Model.solve: the implication of the asserting clause
imply ==
    /\ pc = "imply"
    /\ LET I == make_implication(Here, Neg(cur.literals[1]), cur.clause)
       IN IF I.err # "None" THEN Fails(I.err)
          ELSE Becomes(I) /\ pc' = "propagate" /\ UNCHANGED <<learnt, cur, status, failure>>
    /\ UNCHANGED <<clauses, counter>>
    /\ UNCHANGED <<memVars, kerVars, smtVars>>

\* Model.solve, outer loop: the SAT exit or the next decision
decide ==
    /\ pc = "decide"
    /\ IF asg.border = Count(asg.literals)
       THEN /\ status' = "SAT"
            /\ pc' = "done"
            /\ UNCHANGED <<asg, pos, watches, wlit, failure>>
       ELSE LET D == make_decision(Here, asg.literals[asg.border])
            IN IF D.err # "None"
               THEN pc' = "failed" /\ failure' = D.err
                    /\ UNCHANGED <<asg, pos, watches, wlit, status>>
               ELSE Becomes(D) /\ pc' = "propagate" /\ UNCHANGED <<status, failure>>
    /\ UNCHANGED <<clauses, counter, learnt, cur>>
    /\ UNCHANGED <<memVars, kerVars, smtVars>>

SatNext ==
    \/ \E c \in AllClauses \cup ConstClauses : make_clause(c)
    \/ new_assignment
    \/ propagate
    \/ analyze
    \/ backjump
    \/ learn
    \/ imply
    \/ decide

SpecSat == SatInit /\ [][SatNext]_vars

(***************************************************************************)
(* Assignment and Clause driven call by call, as src/tests/test_dpll.py    *)
(* drives them                                                             *)
(***************************************************************************)

\* the argument lists of TestClauses.new_clause: literals of different variables
ClauseTuples ==
    {s \in UNION {[1..n -> Lits] : n \in 1..MaxLen} :
        \A a, b \in 1..Len(s) : a # b => Var(s[a]) # Var(s[b])}

\* Assignment(mem, x1, ..., xn) on fresh literals: no clause exists yet
AsgInit ==
    /\ pc = "test"
    /\ clauses = {}
    /\ counter = <<>>
    /\ wlit = <<>>
    /\ watches = [l \in Lits \cup {Sentinel} |-> <<>>]
    /\ pos = [index |-> [v \in 0..NumVars |-> v],
              link |-> [v \in 0..NumVars |-> 0 - v],
              antecedent |-> [v \in 0..NumVars |-> NoClause]]
    /\ asg = [literals |-> [n \in 0..NumVars |-> n],
              border |-> 1, top_decision |-> Sentinel, i |-> 1, j |-> 0]
    /\ learnt = {}
    /\ cur = [clause |-> NoClause, literals |-> <<>>]
    /\ status = "None"
    /\ failure = "None"
    /\ MemIdle
    /\ KerIdle
    /\ SmtIdle

\* TestClauses.new_clause: Clause(mem, *literals) for a clause that is new
new_clause(literals) ==
    /\ pc = "test"
    /\ Cardinality(clauses) < MaxMade
    /\ {literals[n] : n \in 1..Len(literals)} \notin clauses
    /\ Becomes(Clause(Here, literals))
    /\ clauses' = clauses \cup {{literals[n] : n \in 1..Len(literals)}}
    /\ UNCHANGED <<pc, counter, learnt, cur, status, failure>>
    /\ UNCHANGED <<memVars, kerVars, smtVars>>

\* a call of Assignment.make_decision whose assertion holds
decision(lit) ==
    /\ pc = "test"
    /\ Val(Here, lit) = "U"
    /\ Becomes(make_decision(Here, lit))
    /\ UNCHANGED <<pc, clauses, counter, learnt, cur, status, failure>>
    /\ UNCHANGED <<memVars, kerVars, smtVars>>

\* a call of Assignment.make_implication whose assertion holds
implication(lit, antecedent) ==
    /\ pc = "test"
    /\ Val(Here, lit) = "U"
    /\ Becomes(make_implication(Here, lit, antecedent))
    /\ UNCHANGED <<pc, clauses, counter, learnt, cur, status, failure>>
    /\ UNCHANGED <<memVars, kerVars, smtVars>>

\* a call of Assignment.backtrack whose assertion holds
backtracking(lit) ==
    /\ pc = "test"
    /\ Val(Here, lit) = "F"
    /\ pos.antecedent[Var(lit)] = NoClause
    /\ Becomes(backtrack(Here, lit))
    /\ UNCHANGED <<pc, clauses, counter, learnt, cur, status, failure>>
    /\ UNCHANGED <<memVars, kerVars, smtVars>>

AsgNext ==
    \/ \E literals \in ClauseTuples : new_clause(literals)
    \/ \E lit \in Lits : decision(lit)
    \/ \E lit \in Lits, c \in clauses : implication(lit, c)
    \/ \E lit \in Lits : backtracking(lit)

SpecAsg == AsgInit /\ [][AsgNext]_vars

(***************************************************************************)
(* Claims about the transactional memory                                   *)
(***************************************************************************)

\* the step is a successful call of op (a transaction ends at most once, so
\* the history record of a successful commit or rollback is new)
Ended(op) == last'.op = op /\ last'.err = "none" /\ last' # last

\* the overlay into which the last committed transaction was merged
Merged == ts[tindex[last.id]].chunk

\* C4: for a Set, t.rollback() makes membership, length and iteration what
\* they were when t began, whatever was added, discarded, begun or committed
\* in between.
C4_SetRollbackRestores ==
    [][(kind = "set" /\ Ended("rollback"))
         => ViewOf(ts') = ts[tindex[last'.id] + 1].snap]_vars

\* the Set has just been rolled back and elements added inside are gone again
C4_Witness ==
    /\ kind = "set" /\ last.op = "rollback" /\ last.err = "none" /\ last.id > 0
    /\ Cardinality(last.note) = 1
    /\ last.note \cap View.members = {}

\* C5: for a Map, t.rollback() makes every key's value, the key set and the
\* length what they were when t began.
C5_MapRollbackRestores ==
    [][(kind = "map" /\ Ended("rollback"))
         => ViewOf(ts') = ts[tindex[last'.id] + 1].snap]_vars

\* the Map has just been rolled back: a key overwritten inside reads its old
\* value again
C5_Witness ==
    /\ kind = "map" /\ last.op = "rollback" /\ last.err = "none" /\ last.id > 0
    /\ \E k \in last.note : k \in DOMAIN View.items

\* C6: for a Set, committing nested transactions top first always succeeds
\* and shows the same set as the same add and discard calls on a plain set.
C6_SetCommitLikePlain ==
    (kind = "set" /\ used \subseteq {"commit"})
        => (last.err # "chunk" /\ View = PlainView)

\* C7: for a Map, a commit leaves every key's value, the key set and the
\* length unchanged, and a key removed in the parent and inserted in the
\* child becomes an overriding entry of the parent with the child's value.
C7_MapCommitKeepsView ==
    [][(kind = "map" /\ Ended("commit"))
         => /\ ViewOf(ts') = View
            /\ \A k \in last'.note :
                 LET i == tindex[last'.id] + 1
                     merged == ts'[i - 1].chunk[1]
                 IN /\ k \in DOMAIN merged.overriding
                    /\ merged.overriding[k] = ts[i].chunk[1].unique[k]
                    /\ k \notin merged.removed
                    /\ k \notin DOMAIN merged.unique]_vars

\* a commit has just collapsed a remove-then-insert into an overriding entry
C7_Witness ==
    /\ kind = "map" /\ last.op = "commit" /\ last.err = "none"
    /\ \E k \in last.note : k \in DOMAIN Merged[1].overriding

\* C8: a value cell reads the latest write that was not rolled back: a write
\* is visible at once, a commit does not change what is read, and a rollback
\* of t brings back the value that was visible when t began.
C8_CellReadsLatestWrite ==
    [][kind = "cell" =>
         /\ (last'.op = "write" /\ last'.err = "none") => ViewOf(ts').value = last'.id
         /\ Ended("commit") => ViewOf(ts') = View
         /\ Ended("rollback") => ViewOf(ts') = ts[tindex[last'.id] + 1].snap]_vars

\* t has been rolled back after an inner transaction with a write was
\* committed into it; the write is no longer read
C8_Witness ==
    /\ kind = "cell" /\ last.op = "rollback" /\ last.err = "none" /\ last.id > 0
    /\ used = {"commit", "rollback"}
    /\ last.note # {} /\ last.note # {View.value}

\* C9: every overlay of a Set has disjoint added and removed sets, and every
\* overlay of a Map has disjoint unique and removed key sets.
C9_OverlaysDisjoint ==
    \A n \in 1..Len(ts) :
        ts[n].chunk # <<>> =>
            /\ kind = "set" => ts[n].chunk[1].added \cap ts[n].chunk[1].removed = {}
            /\ kind = "map" => (DOMAIN ts[n].chunk[1].unique) \cap ts[n].chunk[1].removed = {}

\* every transaction on the stack stores its position as its index
IndexIsPosition(stack, index) == \A p \in 1..Len(stack) : index[stack[p].id] = p - 1

\* C32: after any sequence of begin_transaction, commit and rollback every
\* transaction on the stack stores an index equal to its position; a commit
\* of a transaction that is not the top one leaves the transactions below
\* the one it merges into as they were, makes the transaction directly below
\* it show what the committed one showed, moves every transaction above it
\* down by one position with its index updated, and shortens the stack by
\* exactly one.
C32_CommitShiftsStack ==
    [][/\ IndexIsPosition(ts, tindex)
       /\ IndexIsPosition(ts', tindex')
       /\ (Ended("commit") /\ tindex[last'.id] + 1 < Len(ts)) =>
            LET i == tindex[last'.id] + 1
            IN /\ Len(ts') = Len(ts) - 1
               /\ \A p \in 1..(i - 2) : ts'[p] = ts[p]
               /\ ts'[i - 1].id = ts[i - 1].id
               /\ Contents(ViewOf(SubSeq(ts', 1, i - 1))) = Contents(ViewOf(SubSeq(ts, 1, i)))
               /\ \A p \in i..Len(ts') :
                    /\ ts'[p] = ts[p + 1]
                    /\ tindex'[ts'[p].id] = tindex[ts[p + 1].id] - 1]_vars

\* the middle one of three transactions has been committed: its overlay was
\* merged into the overlay of the base and the top transaction, which holds
\* an overlay of its own, is now at position 1
C32_Witness ==
    /\ last = Call("commit", 1, "none", last.note)
    /\ "inner" \in used
    /\ Len(ts) = 2
    /\ ts[2].id = 2 /\ tindex[2] = 1
    /\ ts[1].chunk # <<>> /\ ts[2].chunk # <<>>
    /\ Contents(ViewOf(SubSeq(ts, 1, 1))) # Contents(ViewOf(<<>>))
    /\ Contents(View) # Contents(ViewOf(SubSeq(ts, 1, 1)))

\* the transaction of handle t is on the stack
OnStack(stack, t) == \E p \in 1..Len(stack) : stack[p].id = t

\* the step is a call of commit or rollback through handle t
EndCall(t) == commit(t) \/ rollback(t)

\* C33: a transaction ends at most once. A commit or rollback through a
\* handle whose transaction is no longer on the stack (committed, rolled
\* back, or discarded by the rollback of a transaction beneath it, also when
\* another transaction has been begun at its position since) fails its
\* assertion and leaves the stack and what the cell shows unchanged; a commit
\* of the base transaction fails the same way; a call that succeeds takes its
\* transaction off the stack, and a transaction that is off the stack never
\* comes back.
C33_EndsAtMostOnce ==
    [][\A t \in 0..(nextId - 1) :
         /\ (EndCall(t) /\ ~OnStack(ts, t)) =>
              /\ last'.err = "handle"
              /\ ts' = ts /\ tindex' = tindex
              /\ ViewOf(ts') = View
         /\ (commit(t) /\ Len(ts) > 0 /\ ts[1].id = t) =>
              /\ last'.err = "handle"
              /\ ts' = ts /\ tindex' = tindex
              /\ ViewOf(ts') = View
         /\ (EndCall(t) /\ last'.err = "none") => (OnStack(ts, t) /\ ~OnStack(ts', t))
         /\ ~OnStack(ts, t) => ~OnStack(ts', t)]_vars

\* a commit through the handle of a transaction that was rolled back has
\* just failed, while the transaction begun after it is at its position
C33_Witness ==
    /\ last = Call("commit", 1, "handle", {})
    /\ ~OnStack(ts, 1)
    /\ used = {"rollback"}
    /\ Len(ts) = 2
    /\ tindex[1] = 1
    /\ ts[2].id = 2 /\ tindex[2] = 1
    /\ ts[2].chunk # <<>>

\* C34: in every reachable state of a Set, len(set) equals the number of
\* elements x for which x in set holds, and iteration yields each of those
\* elements exactly once and nothing else.
C34_SetLenCountsMembers ==
    kind = "set" =>
        /\ View.len = Cardinality(View.members)
        /\ \A x \in Keys : View.iter[x] = (IF x \in View.members THEN 1 ELSE 0)

\* an element of the base overlay was discarded in a transaction and added
\* again in a transaction begun inside it: three overlays, one of them with
\* a removed element, and two members
C34_Witness ==
    /\ kind = "set"
    /\ Len(ts) = 3
    /\ ts[1].chunk = <<[added |-> {1, 2}, removed |-> {}]>>
    /\ ts[2].chunk = <<[added |-> {}, removed |-> {1}]>>
    /\ ts[3].chunk = <<[added |-> {1}, removed |-> {}]>>
    /\ View.len = 2

(***************************************************************************)
(* Claims about the CDCL engine                                            *)
(***************************************************************************)

\* the variables of the formula
FormulaVars == {Var(l) : l \in UNION clauses}

\* some assignment of the variables makes every clause of cs true
Satisfiable(cs) ==
    \E T \in SUBSET (1..NumVars) :
        \A c \in cs : \E l \in c : (l > 0 /\ l \in T) \/ (l < 0 /\ (0 - l) \notin T)

\* C1: when the main loop ends with SAT, every variable is assigned and every
\* input clause has a literal that is true under the final assignment.
C1_SatAssignmentSatisfies ==
    status = "SAT" =>
        /\ \A v \in FormulaVars : Val(Here, v) # "U"
        /\ \A c \in clauses : \E l \in c : Val(Here, l) = "T"

\* the loop ended with SAT after it had learnt a clause from a conflict
C1_Witness ==
    /\ status = "SAT" /\ pc = "done"
    /\ Cardinality(clauses) >= 2
    /\ \E c \in learnt : Cardinality(c) >= 2

\* C2: on an unsatisfiable clause set the main loop reports UNSAT, and it
\* reports UNSAT only on an unsatisfiable one and SAT only on a satisfiable one.
C2_VerdictIsRight ==
    /\ (pc \in {"done", "failed"} /\ ~Satisfiable(clauses)) => status = "UNSAT"
    /\ status = "UNSAT" => ~Satisfiable(clauses)
    /\ status = "SAT" => Satisfiable(clauses)

\* C3: no internal assertion of the main loop fails.
C3_NoAssertionFails == pc # "failed"

Level(S, lit) ==
    Cardinality({n \in 1..S.p.index[Var(lit)] : S.p.antecedent[Var(S.a.literals[n])] = NoClause})

\* what C11 says of a list L returned by analyze_conflict in the engine S
AnalysisResultOk(S, L) ==
    /\ Len(L) >= 1
    /\ \A n \in 1..Len(L) : Val(S, L[n]) = "F"
    /\ \A n \in 1..(Len(L) - 1) : S.p.index[Var(L[n])] > S.p.index[Var(L[n + 1])]
    /\ S.p.link[Var(L[1])] = S.a.top_decision
    /\ Level(S, L[1]) = Level(S, S.a.top_decision)
    /\ \A n \in 2..Len(L) :
         /\ S.p.index[Var(S.p.link[Var(L[n])])] < S.p.index[Var(S.a.top_decision)]
         /\ Level(S, L[n]) < Level(S, S.a.top_decision)

\* C11: analyze_conflict on a conflicting clause returns a non-empty list L of
\* literals that are false under the assignment, in strictly decreasing trail
\* index; L[0] is linked to the top decision and is the only returned literal
\* of the top level, every other literal has link.index < top_decision.index.
C11_AnalysisResult ==
    [][pc = "analyze" => (pc' # "failed" /\ AnalysisResultOk(Here, cur'.literals))]_vars

\* the same statement for the calls of analyze_conflict that return
C11_ReturnedResult ==
    [][(pc = "analyze" /\ pc' # "failed") => AnalysisResultOk(Here, cur'.literals)]_vars

\* C21: in every conflict analysis of a solve, each literal that
\* analyze_conflict resolves away (linked to the top decision, popped while
\* the count of top-level literals is not 1) has an antecedent clause; the
\* analysis never resolves a decision literal.
C21_ResolvedHaveAntecedent ==
    pc = "analyze" =>
        analyze_conflict(Here, cur.clause).err # "analyze_conflict.antecedent"

\* every literal of the clause is false under the assignment
Conflicting(S, c) == \A l \in c : Val(S, l) = "F"

\* one literal of the clause is unassigned and every other one is false
Unit(S, c) == \E l \in c : Val(S, l) = "U" /\ \A k \in c \ {l} : Val(S, k) = "F"

\* C22: when get_suspicious_clause returns null, it has returned every clause
\* that is conflicting or unit under the assignment: at the null return no
\* clause, of one literal or more, is conflicting or unit.
C22_NoSuspiciousClauseLeft ==
    pc = "decide" => \A c \in DOMAIN wlit : ~Conflicting(Here, c) /\ ~Unit(Here, c)

\* C22, amended: when get_suspicious_clause returns null no clause is
\* conflicting and no clause of two or more literals is unit; only a clause
\* of a single literal can be left unit, its literal still unassigned.
C22_WatchedClausesVisited ==
    pc = "decide" =>
        \A c \in DOMAIN wlit :
            /\ ~Conflicting(Here, c)
            /\ Cardinality(c) >= 2 => ~Unit(Here, c)

\* null has been returned after a clause of two literals was returned as a
\* unit clause and its literal implied, while a clause of one literal is
\* still unit
C22_Witness ==
    /\ pc = "decide"
    /\ \E l \in Lits :
         /\ Val(Here, l) = "T"
         /\ Cardinality(pos.antecedent[Var(l)]) = 2
         /\ pos.antecedent[Var(l)] \in clauses
    /\ \E c \in clauses : Cardinality(c) = 1 /\ Unit(Here, c)

\* the number of times a watch occurs in a watch list
Occurrences(vec, w) == Cardinality({n \in 1..Len(vec) : vec[n] = w})

\* C23: in every reachable state of a solve each clause of two or more
\* literals watches two distinct literals of the clause, and each of its two
\* watches occurs exactly once in the watch list of the literal it points to
\* and in no other watch list.
C23_TwoDistinctWatches ==
    \A c \in DOMAIN wlit :
        Cardinality(c) >= 2 =>
            /\ wlit[c][1] # wlit[c][2]
            /\ wlit[c][1] \in c /\ wlit[c][2] \in c
            /\ \A master \in BOOLEAN : \A l \in DOMAIN watches :
                 Occurrences(watches[l], <<c, master>>)
                     = IF l = WatchLit(Here, <<c, master>>) THEN 1 ELSE 0

\* after a backjump a clause was learnt, and a watch of an input clause has
\* been moved to a literal that was appended to a watch list holding another
\* watch already
C23_Witness ==
    /\ \E c \in learnt : Cardinality(c) >= 2
    /\ \E c \in clauses :
         /\ Cardinality(c) = 3
         /\ wlit[c][1] # SortedLits(c)[1]
         /\ Len(watches[wlit[c][1]]) >= 2
         /\ watches[wlit[c][1]][Len(watches[wlit[c][1]])] = <<c, TRUE>>

\* the watch get_suspicious_clause examined last in a step that returned its
\* clause: j was advanced past it
ReturnedWatch == watches'[asg'.literals[asg'.i]][asg'.j]

\* C24: every clause get_suspicious_clause returns has all of its literals
\* false except possibly the literal of its other watch; and when the main
\* loop derives z from a returned clause c and implies it, z is a literal of
\* c that is unassigned, every other literal of c is false, and z becomes
\* true with c as its antecedent.
C24_ReturnedClauseSuspicious ==
    [][(pc = "propagate" /\ pc' \in {"propagate", "analyze"}) =>
         LET w == ReturnedWatch
             c == w[1]
             S == Engine(asg, pos, watches', wlit')
             After == Engine(asg', pos', watches', wlit')
         IN /\ \A l \in c \ {WatchLit(S, Neighbour(w))} : Val(S, l) = "F"
            /\ asg'.border # asg.border =>
                 LET z == 0 - asg'.literals[asg.border]
                 IN /\ asg'.border = asg.border + 1
                    /\ z \in c
                    /\ Val(S, z) = "U"
                    /\ \A l \in c \ {z} : Val(S, l) = "F"
                    /\ pos'.antecedent[Var(z)] = c
                    /\ Val(After, z) = "T"]_vars

\* the main loop has just implied a literal from an input clause of three
\* literals that was returned with its two other literals false
C24_Witness ==
    /\ pc = "propagate"
    /\ asg.border >= 4
    /\ LET c == pos.antecedent[Var(asg.literals[asg.border - 1])]
       IN /\ Cardinality(c) = 3
          /\ c \in clauses
          /\ c \notin learnt
          /\ \A l \in c : Val(Here, l) = (IF l = 0 - asg.literals[asg.border - 1] THEN "T" ELSE "F")

\* the slots of the trail behind the sentinel
Slots == 1..(Count(asg.literals) - 1)

\* C25: in every reachable state the trail holds the sentinel in slot 0 and,
\* in slots 1..n, exactly one literal of each variable, never a literal and
\* its negation; the index stored for a variable is the slot of its literal;
\* and for every literal l, A[l] and A[l.negated] are both null or opposite
\* booleans.
C25_TrailWellFormed ==
    /\ asg.literals[0] = Sentinel
    /\ pos.index[Var(Sentinel)] = 0
    /\ \A n \in Slots : asg.literals[n] \in Lits
    /\ \A v \in 1..NumVars :
         /\ Cardinality({n \in Slots : Var(asg.literals[n]) = v}) = 1
         /\ Var(asg.literals[pos.index[v]]) = v
    /\ \A l \in Lits :
         \/ Val(Here, l) = "U" /\ Val(Here, 0 - l) = "U"
         \/ Val(Here, l) = "T" /\ Val(Here, 0 - l) = "F"
         \/ Val(Here, l) = "F" /\ Val(Here, 0 - l) = "T"

\* a negated literal was placed as a decision from the last slot, which
\* moved the literal of the border slot there, and a literal was implied
\* behind it: the trail is a permutation of the initial one
C25_Witness ==
    /\ asg.border = 3
    /\ asg.literals[1] = 0 - 3
    /\ asg.literals[2] = 1
    /\ asg.literals[3] = 2
    /\ pos.antecedent[1] # NoClause
    /\ asg.top_decision = 0 - 3

\* C26: for every literal, A[lit] is true when the trail slot at its stored
\* index holds lit itself and the index is below border, false when the slot
\* holds lit.negated and the index is below border, and null otherwise; the
\* literals in the trail positions [1, border) are the ones assigned true.
C26_TrailLiteralsTrue ==
    /\ \A lit \in Lits :
         LET index == pos.index[Var(lit)]
         IN Val(Here, lit) =
              IF index < asg.border /\ asg.literals[index] = lit THEN "T"
              ELSE IF index < asg.border /\ asg.literals[index] = 0 - lit THEN "F"
              ELSE "U"
    /\ \A lit \in Lits :
         Val(Here, lit) = "T" <=> \E n \in 1..(asg.border - 1) : asg.literals[n] = lit

\* C26, amended: A[lit] is false when the trail slot at the stored index of
\* lit holds lit itself and the index is below border, true when the slot
\* holds lit.negated and the index is below border, and null otherwise; the
\* literals in the trail positions [1, border) are the ones assigned false.
C26_TrailLiteralsFalse ==
    /\ \A lit \in Lits :
         LET index == pos.index[Var(lit)]
         IN Val(Here, lit) =
              IF index < asg.border /\ asg.literals[index] = lit THEN "F"
              ELSE IF index < asg.border /\ asg.literals[index] = 0 - lit THEN "T"
              ELSE "U"
    /\ \A lit \in Lits :
         Val(Here, lit) = "F" <=> \E n \in 1..(asg.border - 1) : asg.literals[n] = lit

\* two literals are on the trail below border, one of them negated, after a
\* literal was moved out of the border slot; the third variable is unassigned
C26_Witness ==
    /\ asg.border = 3
    /\ asg.literals[1] = 2
    /\ asg.literals[2] = 0 - 3
    /\ Val(Here, 2) = "F" /\ Val(Here, 3) = "T" /\ Val(Here, 1) = "U"

\* the decision that precedes the decision d on the trail, the sentinel if
\* d is the first decision
PrecedingDecision(d) ==
    LET before == {n \in 1..(pos.index[Var(d)] - 1) :
                     pos.antecedent[Var(asg.literals[n])] = NoClause}
    IN IF before = {} THEN Sentinel
       ELSE asg.literals[CHOOSE n \in before : \A m \in before : m <= n]

DecisionSlots ==
    {n \in 1..(asg.border - 1) : pos.antecedent[Var(asg.literals[n])] = NoClause}

\* the first decision behind slot n, the literal of slot n if there is none
FollowingDecision(n) ==
    LET behind == {m \in DecisionSlots : m > n}
    IN IF behind = {} THEN asg.literals[n]
       ELSE asg.literals[CHOOSE m \in behind : \A k \in behind : m <= k]

\* C28: after any sequence of make_decision, make_implication and backtrack,
\* with d1..dk the decisions on the trail in order: sentinel.link is d1,
\* di.link is d(i+1), dk.link is dk, top_decision is dk, and every implied
\* literal on the trail is linked to the decision that was top when it was
\* implied; with no decision on the trail sentinel.link and top_decision are
\* the sentinel.
C28_LinkChain ==
    /\ \A n \in DecisionSlots \cup {0} :
         pos.link[Var(asg.literals[n])] = FollowingDecision(n)
    /\ asg.top_decision =
         asg.literals[CHOOSE n \in DecisionSlots \cup {0} : \A m \in DecisionSlots : m <= n]
    /\ \A n \in (1..(asg.border - 1)) \ DecisionSlots :
         pos.link[Var(asg.literals[n])] = PrecedingDecision(asg.literals[n])

\* a second decision and a literal implied under it were taken back by
\* backtrack and the negation of that decision was decided: two decisions are
\* on the trail, the third variable is unassigned and still linked to the
\* decision that was taken back
C28_Witness ==
    /\ asg.border = 3
    /\ DecisionSlots = {1, 2}
    /\ pos.link[Var(Sentinel)] = asg.literals[1]
    /\ pos.link[Var(asg.literals[1])] = asg.literals[2]
    /\ asg.top_decision = asg.literals[2]
    /\ pos.antecedent[Var(asg.literals[3])] # NoClause
    /\ pos.link[Var(asg.literals[3])] = 0 - asg.literals[2]

\* the watches that the step has moved to another literal
MovedWatches ==
    {w \in (DOMAIN wlit) \X BOOLEAN :
        WatchLit(Here, w) # WatchLit(Engine(asg', pos', watches', wlit'), w)}

\* the watch w has left the watch list of the false literal it pointed to
\* and stands once, appended, in the list of the literal it points to now
MoveEffects(w) ==
    LET a == WatchLit(Here, w)
        b == WatchLit(Engine(asg', pos', watches', wlit'), w)
    IN /\ Val(Here, a) = "F"
       /\ b \in w[1] /\ Val(Here, b) # "F"
       /\ Occurrences(watches'[a], w) = 0
       /\ Occurrences(watches'[b], w) = 1
       /\ \A n \in 1..Len(watches[b]) : watches'[b][n] = watches[b][n]

\* w, the only watch moved in the call, was removed by swap-pop at its index
\* j and appended to the new list, and j was not advanced: the watch that
\* the swap-pop put at index j was examined next
SwapPop(w) ==
    LET a == WatchLit(Here, w)
        b == WatchLit(Engine(asg', pos', watches', wlit'), w)
        j == (CHOOSE n \in 1..Len(watches[a]) : watches[a][n] = w) - 1
        count == Len(watches[a]) - 1
    IN /\ Len(watches'[a]) = count
       /\ \A n \in 1..count :
            watches'[a][n] = IF n = j + 1 THEN watches[a][count + 1] ELSE watches[a][n]
       /\ watches'[b] = Append(watches[b], w)
       /\ j < count =>
            /\ pc' \in {"propagate", "analyze"}
            /\ asg'.i = pos.index[Var(a)]
            /\ asg'.j = j + 1
            /\ ReturnedWatch = watches[a][count + 1]

\* C29: when get_suspicious_clause examines a watch on a false trail literal
\* and moves it to another literal of its clause, the watch is removed from
\* the list of the false literal by swap-pop at index j, appended to the list
\* of the new literal, j is not advanced, and that call returns the clause
\* of the watch.
C29_MovedWatchReturned ==
    [][(pc = "propagate" /\ pc' # "failed") =>
         \A w \in MovedWatches :
             /\ MoveEffects(w)
             /\ MovedWatches = {w} => SwapPop(w)
             /\ pc' \in {"propagate", "analyze"}
             /\ ReturnedWatch[1] = w[1]]_vars

\* C29, amended: the watch is removed from the list of the false literal by
\* swap-pop at index j and appended to the list of the new literal, j is not
\* advanced, and the call does not return for it: it goes on with the watch
\* that is now at index j.
C29_MovedWatchPassedOver ==
    [][(pc = "propagate" /\ pc' # "failed") =>
         \A w \in MovedWatches :
             /\ MoveEffects(w)
             /\ MovedWatches = {w} => SwapPop(w)]_vars

\* the only clause has three literals; after the first decision a call moved
\* one of its watches and returned null
C29_Witness ==
    /\ pc = "decide"
    /\ asg.border = 2
    /\ \E c \in clauses :
         /\ clauses = {c}
         /\ Cardinality(c) = 3
         /\ <<wlit[c][1], wlit[c][2]>> # <<SortedLits(c)[1], SortedLits(c)[2]>>
         /\ watches[asg.literals[1]] = <<>>

\* the literals whose watch lists hold a watch of the clause
Watched(c) == {l \in DOMAIN watches : \E n \in 1..Len(watches[l]) : watches[l][n][1] = c}

\* C30: for clauses of one, two or more literals and every assignment,
\* is_conflict holds iff both watched literals are false; derive returns the
\* watched literal that is unassigned when the other watched literal is false
\* (or when the clause has a single literal and it is unassigned) and null in
\* every other case; is_conflict and a non-null derive never hold together.
C30_ConflictAndDerive ==
    \A c \in DOMAIN wlit :
        /\ Cardinality(Watched(c)) = (IF Cardinality(c) = 1 THEN 1 ELSE 2)
        /\ is_conflict(Here, c) <=> \A l \in Watched(c) : Val(Here, l) = "F"
        /\ \A l \in Watched(c) :
             derive(Here, c) = l <=>
                 /\ Val(Here, l) = "U"
                 /\ \A k \in Watched(c) \ {l} : Val(Here, k) = "F"
        /\ derive(Here, c) \in Watched(c) \cup {NoLit}
        /\ ~(is_conflict(Here, c) /\ derive(Here, c) # NoLit)

\* derive returns the unassigned watched literal of a clause of three
\* literals whose other watched literal is false and whose third literal is
\* unassigned
C30_Witness ==
    \E c \in DOMAIN wlit :
        /\ Cardinality(c) = 3
        /\ derive(Here, c) = wlit[c][1]
        /\ Val(Here, wlit[c][2]) = "F"
        /\ \E l \in c \ Watched(c) : Val(Here, l) = "U"

\* C36: at every reachable state of the trail sentinel.link is the first
\* decision literal, the link of every decision literal on the trail is that
\* literal itself, and the link of every implied literal is the decision
\* that was top when it was implied.
C36_DecisionsSelfLinked ==
    /\ pos.link[Var(Sentinel)] = FollowingDecision(0)
    /\ \A n \in DecisionSlots : pos.link[Var(asg.literals[n])] = asg.literals[n]
    /\ \A n \in (1..(asg.border - 1)) \ DecisionSlots :
         pos.link[Var(asg.literals[n])] = PrecedingDecision(asg.literals[n])

\* C36, amended: sentinel.link is the first decision literal, the link of the
\* top decision is that literal itself, the link of every other decision on
\* the trail is the decision that follows it, and the link of every implied
\* literal is the decision that was top when it was implied.
C36_DecisionsChained ==
    /\ pos.link[Var(Sentinel)] = FollowingDecision(0)
    /\ \A n \in DecisionSlots :
         pos.link[Var(asg.literals[n])] =
             IF asg.literals[n] = asg.top_decision THEN asg.literals[n]
             ELSE FollowingDecision(n)
    /\ \A n \in (1..(asg.border - 1)) \ DecisionSlots :
         /\ pos.link[Var(asg.literals[n])] = PrecedingDecision(asg.literals[n])
         /\ pos.antecedent[Var(pos.link[Var(asg.literals[n])])] = NoClause

\* two decisions are on the trail and a literal was implied under the second
\* one: the first decision is linked to the second, the second to itself
C36_Witness ==
    /\ asg.border = 4
    /\ DecisionSlots = {1, 2}
    /\ pos.link[Var(asg.literals[1])] = asg.literals[2]
    /\ pos.link[Var(asg.literals[2])] = asg.literals[2]
    /\ pos.link[Var(asg.literals[3])] = asg.literals[2]

\* C31: once Model.__init__ has built the assignment, the sentinel keeps
\* index 0, is in slot 0 of the trail and in no other slot, is a literal of
\* no clause, and is never placed on the trail as a decision; violated by
\* the formulas that to_cnf folds to true or false
C31_SentinelApart ==
    pc # "make_clause" =>
      /\ pos.index[Var(Sentinel)] = 0
      /\ \A n \in DOMAIN asg.literals : asg.literals[n] = Sentinel <=> n = 0
      /\ \A c \in DOMAIN wlit : Sentinel \notin c
      /\ \A n \in 1..(asg.border - 1) :
           asg.literals[n] = Sentinel => pos.antecedent[Var(Sentinel)] # NoClause

(***************************************************************************)
(* Expression kernel (smt/logic/symbols_base.py, builtin_symbols.py)       *)
(***************************************************************************)

\* a symbol: its class, its sort, the value of a constant or the neutral
\* element of a connective, the serial number of an object of a class that is
\* not cached, and what else its constructor was given
Symbol(cls, sort, val, id, of) ==
    [cls |-> cls, sort |-> sort, val |-> val, id |-> id, of |-> of]

BooleanConstSymbol(value) == Symbol("BooleanConstSymbol", "BOOL", IF value THEN 1 ELSE 0, 0, <<>>)
IntegerConstSymbol(value) == Symbol("IntegerConstSymbol", "INT", value, 0, <<>>)
VariableSymbol(sort, id) == Symbol("VariableSymbol", sort, 0, id, <<>>)
FunctionSymbol(sort, args, id) == Symbol("FunctionSymbol", sort, 0, id, args)
MacroSymbol(sort, formal_args, body) == Symbol("MacroSymbol", sort, 0, 0, <<formal_args, body>>)
NegatorSymbol(sort) == Symbol("NegatorSymbol", sort, 0, 0, <<>>)
BooleanConnectiveSymbol(neutral_elem) ==
    Symbol("BooleanConnectiveSymbol", "BOOL", IF neutral_elem THEN 1 ELSE 0, 0, <<>>)
BooleanImplicationSymbol == Symbol("BooleanImplicationSymbol", "BOOL", 0, 0, <<>>)
BooleanEqSymbol == Symbol("BooleanEqSymbol", "BOOL", 0, 0, <<>>)
IntegerEqSymbol == Symbol("IntegerEqSymbol", "BOOL", 0, 0, <<>>)
IntegerSumSymbol == Symbol("IntegerSumSymbol", "INT", 0, 0, <<>>)
IntegerDiffSymbol == Symbol("IntegerDiffSymbol", "INT", 0, 0, <<>>)
TseitinVarSymbol(expr) == Symbol("TseitinVarSymbol", "BOOL", 0, 0, <<expr>>)

\* WrapperSymbol is not cached: every call makes a new symbol, id tells them
\* apart; opt_symbol is <<>> for None
WrapperSymbol(opt_symbol, id) ==
    Symbol("WrapperSymbol", IF opt_symbol = <<>> THEN "UNKNOWN" ELSE opt_symbol[1].sort,
           0, id, opt_symbol)

\* an expression node; two nodes of the same symbol and arguments are one
\* object (Unique.cached), so identity of expressions is equality of nodes
_ExprImpl(symbol, args) == [sym |-> symbol, args |-> args]

\* an exception on its way out of the kernel, and the None of a reducer
Raised(exc) == _ExprImpl(Symbol(exc, "UNKNOWN", 0, 0, <<>>), <<>>)
TypeError == Raised("TypeError")
AssertionError == Raised("AssertionError")
NoExpr == Raised("None")
IsRaised(e) == e.sym.cls \in {"TypeError", "AssertionError"}
AnyRaised(es) == \E n \in 1..Len(es) : IsRaised(es[n])
FirstRaised(es) == es[CHOOSE n \in 1..Len(es) : IsRaised(es[n]) /\ \A m \in 1..(n - 1) : ~IsRaised(es[m])]

\* isinstance(symbol, ValencySymbol)
IsValencySymbol(symbol) == symbol.cls # "WrapperSymbol"

\* Expr.has_wrappers
RECURSIVE has_wrappers(_)
has_wrappers(e) ==
    \/ e.sym.cls = "WrapperSymbol"
    \/ \E n \in 1..Len(e.args) : has_wrappers(e.args[n])

\* ValencyTrait.get_arg_sort of every symbol class; "None" for None
get_arg_sort(symbol, index, present) ==
    CASE symbol.cls \in {"BooleanConstSymbol", "IntegerConstSymbol", "VariableSymbol",
                         "TseitinVarSymbol"} -> "None"
      [] symbol.cls = "NegatorSymbol" -> IF index = 0 THEN symbol.sort ELSE "None"
      [] symbol.cls = "BooleanImplicationSymbol" -> IF index = 0 \/ index = 1 THEN "BOOL" ELSE "None"
      [] symbol.cls = "IntegerDiffSymbol" -> IF index = 0 \/ index = 1 THEN "INT" ELSE "None"
      [] symbol.cls \in {"BooleanConnectiveSymbol", "BooleanEqSymbol"} ->
           IF index = 0 \/ (index > 0 /\ present) THEN "BOOL" ELSE "None"
      [] symbol.cls \in {"IntegerEqSymbol", "IntegerSumSymbol"} ->
           IF index = 0 \/ (index > 0 /\ present) THEN "INT" ELSE "None"
      [] symbol.cls = "FunctionSymbol" ->
           IF 0 <= index /\ index < Len(symbol.of) THEN symbol.of[index + 1] ELSE "None"
      [] symbol.cls = "MacroSymbol" ->
           IF 0 <= index /\ index < Len(symbol.of[1]) THEN symbol.of[1][index + 1].sort ELSE "None"
      [] OTHER -> "None"

\* ValencyTrait.check_args
check_args(symbol, sorts) ==
    /\ \A i \in 0..(Len(sorts) - 1) :
         sorts[i + 1] = "UNKNOWN" \/ get_arg_sort(symbol, i, TRUE) = sorts[i + 1]
    /\ get_arg_sort(symbol, Len(sorts), FALSE) = "None"

\* Unique.__lt__: the key is (priority, class name, constructor arguments,
\* serial number); the classes in the order of priority and name
ClassRank(cls) ==
    CASE cls = "NegatorSymbol" -> 0
      [] cls = "BooleanConstSymbol" -> 1
      [] cls = "IntegerConstSymbol" -> 2
      [] cls = "TseitinVarSymbol" -> 3
      [] cls = "VariableSymbol" -> 4
      [] cls = "FunctionSymbol" -> 5
      [] cls = "MacroSymbol" -> 6
      [] cls = "BooleanConnectiveSymbol" -> 7
      [] cls = "BooleanEqSymbol" -> 8
      [] cls = "BooleanImplicationSymbol" -> 9
      [] cls = "IntegerDiffSymbol" -> 10
      [] cls = "IntegerEqSymbol" -> 11
      [] cls = "IntegerSumSymbol" -> 12
      [] OTHER -> 13

IntCmp(m, n) == IF m < n THEN "LT" ELSE IF m > n THEN "GT" ELSE "EQ"

\* comparison of two tuples of sorts: Sort is an Enum without order, so the
\* first pair of different sorts raises TypeError ("ERR")
SortsCmp(s, t) ==
    IF \E n \in 1..Len(s) : n <= Len(t) /\ s[n] # t[n] THEN "ERR"
    ELSE IntCmp(Len(s), Len(t))

\* comparison of two symbols and of two expressions by their keys:
\* "LT", "GT", "EQ", or "ERR" when the comparison raises TypeError
RECURSIVE SymCmp(_, _)
RECURSIVE ExprCmp(_, _)
SymCmp(s, t) ==
    IF s = t THEN "EQ"
    ELSE IF ClassRank(s.cls) # ClassRank(t.cls) THEN IntCmp(ClassRank(s.cls), ClassRank(t.cls))
    ELSE CASE s.cls \in {"BooleanConstSymbol", "IntegerConstSymbol", "BooleanConnectiveSymbol"} ->
                IntCmp(s.val, t.val)
           [] s.cls = "VariableSymbol" ->
                IF s.sort # t.sort THEN "ERR" ELSE IntCmp(s.id, t.id)
           [] s.cls = "NegatorSymbol" -> "ERR"
           [] s.cls = "FunctionSymbol" ->
                IF s.sort # t.sort THEN "ERR"
                ELSE IF SortsCmp(s.of, t.of) # "EQ" THEN SortsCmp(s.of, t.of)
                ELSE IntCmp(s.id, t.id)
           [] s.cls = "WrapperSymbol" ->
                IF s.of = t.of THEN IntCmp(s.id, t.id)
                ELSE IF s.of = <<>> THEN "LT"
                ELSE IF t.of = <<>> THEN "GT"
                ELSE SymCmp(s.of[1], t.of[1])
           [] s.cls = "TseitinVarSymbol" -> ExprCmp(s.of[1], t.of[1])
           [] s.cls = "MacroSymbol" ->
                IF s.sort # t.sort THEN "ERR"
                ELSE IF s.of[1] # t.of[1]
                THEN (LET n == CHOOSE n \in 1..(Len(s.of[1]) + 1) :
                                 /\ \A m \in 1..(n - 1) : m <= Len(t.of[1]) /\ s.of[1][m] = t.of[1][m]
                                 /\ (n > Len(s.of[1]) \/ n > Len(t.of[1]) \/ s.of[1][n] # t.of[1][n])
                      IN IF n > Len(s.of[1]) THEN "LT"
                         ELSE IF n > Len(t.of[1]) THEN "GT"
                         ELSE SymCmp(s.of[1][n], t.of[1][n]))
                ELSE ExprCmp(s.of[2], t.of[2])
           [] OTHER -> "EQ"

ExprCmp(e, f) ==
    IF e = f THEN "EQ"
    ELSE IF e.sym # f.sym THEN SymCmp(e.sym, f.sym)
    ELSE LET n == CHOOSE n \in 1..(Len(e.args) + 1) :
                    /\ \A m \in 1..(n - 1) : m <= Len(f.args) /\ e.args[m] = f.args[m]
                    /\ (n > Len(e.args) \/ n > Len(f.args) \/ e.args[n] # f.args[n])
         IN IF n > Len(e.args) THEN "LT"
            ELSE IF n > Len(f.args) THEN "GT"
            ELSE ExprCmp(e.args[n], f.args[n])

\* sorted(es) as list.sort does it on a short list: the first run is found
\* by comparing neighbours and reversed if it descends, the other elements are
\* put in by binary insertion; <<TypeError>> when a comparison raises
RECURSIVE count_run(_, _, _)
count_run(es, n, descending) ==
    IF n = Len(es) THEN n
    ELSE LET c == ExprCmp(es[n + 1], es[n]) IN
         IF c = "ERR" THEN 0
         ELSE IF (c = "LT") = descending THEN count_run(es, n + 1, descending)
         ELSE n

Reversed(es) == [n \in 1..Len(es) |-> es[Len(es) + 1 - n]]

\* the place of pivot in the sorted list run, between l and r; -1 on TypeError
RECURSIVE binary_search(_, _, _, _)
binary_search(run, pivot, l, r) ==
    IF l >= r THEN l
    ELSE LET p == l + ((r - l) \div 2)
             c == ExprCmp(pivot, run[p + 1])
         IN IF c = "ERR" THEN 0 - 1
            ELSE IF c = "LT" THEN binary_search(run, pivot, l, p)
            ELSE binary_search(run, pivot, p + 1, r)

RECURSIVE binarysort(_, _, _)
binarysort(run, es, start) ==
    IF start > Len(es) THEN run
    ELSE LET at == binary_search(run, es[start], 0, Len(run)) IN
         IF at < 0 THEN <<TypeError>>
         ELSE binarysort(SubSeq(run, 1, at) \o <<es[start]>> \o SubSeq(run, at + 1, Len(run)),
                         es, start + 1)

sorted(es) ==
    IF Len(es) < 2 THEN es
    ELSE LET c == ExprCmp(es[2], es[1]) IN
         IF c = "ERR" THEN <<TypeError>>
         ELSE LET n == count_run(es, 2, c = "LT") IN
              IF n = 0 THEN <<TypeError>>
              ELSE binarysort(IF c = "LT" THEN Reversed(SubSeq(es, 1, n)) ELSE SubSeq(es, 1, n),
                              es, n + 1)

\* the elements of a Python set of expressions in the order of iteration;
\* the order depends on the hash values, one order stands for it
RECURSIVE Listed(_)
Listed(set) ==
    IF set = {} THEN <<>>
    ELSE LET e == CHOOSE e \in set : TRUE IN <<e>> \o Listed(set \ {e})

\* a set of indices in the order of iteration (small integers: ascending)
RECURSIVE Ascending(_)
Ascending(set) ==
    IF set = {} THEN <<>>
    ELSE LET m == CHOOSE m \in set : \A k \in set : m <= k IN <<m>> \o Ascending(set \ {m})

\* a set(args) that loses the last argument
ElementsButLast(es) == {es[n] : n \in 1..(Len(es) - 1)}

Elements(es) == {es[n] : n \in 1..Len(es)}

boolean(value) == _ExprImpl(BooleanConstSymbol(value), <<>>)
integer(value) == _ExprImpl(IntegerConstSymbol(value), <<>>)

\* flatten of AssociativeCommutativeSymbol._reduce: the stack is popped from
\* its end, the arguments of a node of the same symbol are pushed, any other
\* expression gets the next index
RECURSIVE flatten(_, _, _, _)
flatten(self, stack, index_to_expr, dest) ==
    IF stack = <<>> THEN [index_to_expr |-> index_to_expr, dest |-> dest]
    ELSE LET e == stack[Len(stack)]
             rest == SubSeq(stack, 1, Len(stack) - 1)
         IN IF e.sym = self
            THEN flatten(self, rest \o e.args, index_to_expr, dest)
            ELSE flatten(self, rest, Append(index_to_expr, e),
                         dest \cup {Len(index_to_expr) + 1})

\* the value of body for a value that is computed once
With(value, body(_)) == body(value)

RECURSIVE apply(_, _, _)
RECURSIVE negated(_)
RECURSIVE _unary_reduce(_, _)
RECURSIVE _binary_reduce(_, _, _)
RECURSIVE ac_pairs(_, _, _, _, _)
RECURSIVE ac_first(_, _, _, _, _, _, _)
RECURSIVE ac_tasks(_, _, _, _)

\* NegatorSymbol._unary_reduce with the _negate of the class of a's symbol:
\* a negation gives its argument, a constant the opposite constant, a
\* connective the opposite connective of the negated arguments, a sum the sum
\* of the negated arguments; any other symbol has no _negate
_unary_reduce(self, a) ==
    CASE a.sym.cls = "NegatorSymbol" -> a.args[1]
      [] a.sym.cls = "BooleanConstSymbol" -> boolean(a.sym.val = 0)
      [] a.sym.cls = "IntegerConstSymbol" -> integer(0 - a.sym.val)
      [] a.sym.cls \in {"BooleanConnectiveSymbol", "IntegerSumSymbol"} ->
           apply(IF a.sym.cls = "BooleanConnectiveSymbol"
                 THEN BooleanConnectiveSymbol(a.sym.val = 0) ELSE IntegerSumSymbol,
                 [n \in 1..Len(a.args) |-> negated(a.args[n])], 0)
      [] OTHER -> _ExprImpl(self, <<a>>)

\* Expr.negated, which _ExprImpl.__init__ sets to
\* NegatorSymbol(symbol.sort).apply(self)
negated(e) == _unary_reduce(NegatorSymbol(e.sym.sort), e)

\* the node an associative-commutative symbol builds; its negation is built
\* with it and sorts the negated arguments, which can raise
AcNode(self, new_args) ==
    IF AnyRaised(sorted([n \in 1..Len(new_args) |-> negated(new_args[n])])) THEN TypeError
    ELSE _ExprImpl(self, new_args)

\* BooleanConnectiveSymbol._binary_reduce and IntegerSumSymbol._binary_reduce
_binary_reduce(self, a, b) ==
    With(negated(b), LAMBDA not_b :
    IF self.cls = "IntegerSumSymbol"
    THEN (IF a = not_b THEN integer(0)
          ELSE IF a = integer(0) THEN b
          ELSE IF a.sym.cls = "IntegerConstSymbol" /\ b.sym.cls = "IntegerConstSymbol"
          THEN integer(a.sym.val + b.sym.val)
          ELSE NoExpr)
    ELSE LET zero == boolean(self.val = 1)
             one == boolean(self.val = 0)
             opposite == BooleanConnectiveSymbol(self.val = 0)
         IN IF a = b THEN a
            ELSE IF a = not_b THEN one
            ELSE IF a = zero THEN b
            ELSE IF a = one THEN a
            ELSE IF b.sym # opposite THEN NoExpr
            ELSE With(Elements(b.args), LAMBDA b_args :
                 With(IF a.sym = opposite THEN Elements(a.args) ELSE {a}, LAMBDA a_args :
                 With(a_args \cap b_args, LAMBDA common :
                 With(negated(a), LAMBDA not_a :
                 IF not_a \in b_args
                 THEN apply(self, <<a>> \o Listed(b_args \ {not_a}), 0)
                 ELSE IF a_args \subseteq b_args THEN a
                 ELSE IF common = {} THEN NoExpr
                 ELSE With(apply(opposite, Listed(a_args \ common), 0), LAMBDA x :
                      With(apply(opposite, Listed(b_args \ common), 0), LAMBDA y :
                      IF IsRaised(x) THEN x
                      ELSE IF IsRaised(y) THEN y
                      ELSE IF x = negated(y) THEN apply(opposite, Listed(common), 0)
                      ELSE NoExpr)))))))

\* the inner loop that pairs a only with the expressions numbered after it
ac_pairs_after(self, ite, res, a, second_list) ==
    With({i \in 1..Len(second_list) :
            /\ second_list[i] > a
            /\ second_list[i] \in res
            /\ _binary_reduce(self, ite[a], ite[second_list[i]]) # NoExpr},
         LAMBDA hits : IF hits = {} THEN 0 ELSE CHOOSE i \in hits : \A k \in hits : i <= k)

\* the inner loop of AssociativeCommutativeSymbol._reduce for one a: the first
\* place i of second_list whose expression reduces with a; 0 when there is none
ac_pairs(self, ite, res, a, second_list) ==
    With({i \in 1..Len(second_list) :
            /\ second_list[i] # a
            /\ second_list[i] \in res
            /\ _binary_reduce(self, ite[a], ite[second_list[i]]) # NoExpr},
         LAMBDA hits : IF hits = {} THEN 0 ELSE CHOOSE i \in hits : \A k \in hits : i <= k)

\* the loop "for a in first" of one task: T holds index_to_expr, res and the
\* task list; the result has err set when a reduction raised
ac_first(self, T, first, k, second_list, created, unused) ==
    IF k > Len(first)
    THEN (IF created = {} THEN T
          ELSE [T EXCEPT !.res = T.res \cup created,
                         !.tasks = @ \o << <<T.res, created>>, <<created, T.res>>,
                                           <<created, created>> >>])
    ELSE With(first[k], LAMBDA a :
         IF a \notin T.res THEN ac_first(self, T, first, k + 1, second_list, created, unused)
         ELSE With(ac_pairs(self, T.ite, T.res, a, second_list), LAMBDA i :
              IF i = 0 THEN ac_first(self, T, first, k + 1, second_list, created, unused)
              ELSE With(second_list[i], LAMBDA b :
                   With(_binary_reduce(self, T.ite[a], T.ite[b]), LAMBDA c :
                   With(flatten(self, <<c>>, T.ite, {}), LAMBDA F :
                   With(Len(second_list), LAMBDA n :
                   IF IsRaised(c) THEN [T EXCEPT !.err = c]
                   ELSE ac_first(self,
                                 [T EXCEPT !.ite = F.index_to_expr, !.res = @ \ {a, b}],
                                 first, k + 1,
                                 [m \in 1..(n - 1) |-> IF m = i THEN second_list[n]
                                                       ELSE second_list[m]],
                                 created \cup F.dest, unused)))))))

\* one pass of the loop "while len(tasks) > 0": a task is popped and its
\* pairs are tried
ac_task(self, T) ==
    With(T.tasks[Len(T.tasks)], LAMBDA task :
    With([T EXCEPT !.tasks = SubSeq(@, 1, Len(@) - 1)], LAMBDA popped :
    With(SelectSeq(Ascending(task[2]), LAMBDA i : i \in T.res), LAMBDA second_list :
    ac_first(self, popped, Ascending(task[1]), 1, second_list, {}, 0))))

\* the loop "while len(tasks) > 0"
ac_tasks(self, T, fuel, unused) ==
    IF T.err # NoExpr \/ T.tasks = <<>> THEN T
    ELSE ac_tasks(self, ac_task(self, T), fuel, unused)

\* the head of AssociativeCommutativeSymbol._reduce: the arguments are
\* flattened and the first task pairs all of them
ac_start(self, args) ==
    With(flatten(self, args, <<>>, {}), LAMBDA F :
    [ite |-> F.index_to_expr, res |-> F.dest,
     tasks |-> << <<F.dest, F.dest>> >>, err |-> NoExpr])

\* the end of AssociativeCommutativeSymbol._reduce: the remaining
\* expressions are sorted and the result is built
ac_finish(self, T) ==
    With(sorted([n \in 1..Cardinality(T.res) |-> T.ite[Ascending(T.res)[n]]]), LAMBDA new_args :
    IF T.err # NoExpr THEN T.err
    ELSE IF AnyRaised(new_args) THEN TypeError
    ELSE IF Cardinality(T.res) = 1 /\ IsValencySymbol(new_args[1].sym) THEN new_args[1]
    ELSE AcNode(self, new_args))

\* AssociativeCommutativeSymbol._reduce
ac_reduce(self, args) == ac_finish(self, ac_tasks(self, ac_start(self, args), 0, 0))

\* BooleanEqSymbol._reduce
boolean_eq_reduce(args) ==
    With(Elements(args), LAMBDA es :
    With(sorted(Listed(es)), LAMBDA new_args :
    IF Cardinality(es) = 1 THEN boolean(TRUE)
    ELSE IF AnyRaised(new_args) THEN TypeError
    ELSE IF Cardinality(es) = 2
    THEN With(new_args[1], LAMBDA a :
         With(new_args[2], LAMBDA b :
         With(apply(BooleanConnectiveSymbol(FALSE), <<negated(a), b>>, 0), LAMBDA p :
         With(apply(BooleanConnectiveSymbol(FALSE), <<a, negated(b)>>, 0), LAMBDA q :
         IF IsRaised(p) THEN p ELSE IF IsRaised(q) THEN q
         ELSE apply(BooleanConnectiveSymbol(TRUE), <<p, q>>, 0)))))
    ELSE With([i \in 1..(Cardinality(es) - 1) |->
                 apply(BooleanEqSymbol, <<new_args[i], new_args[i + 1]>>, 0)], LAMBDA pairs :
         apply(BooleanConnectiveSymbol(TRUE), pairs, 0))))

\* the summands of one argument of an integer equality
Summands(e) == IF e.sym = IntegerSumSymbol THEN Elements(e.args) ELSE {e}

\* IntegerEqSymbol._reduce; NoExpr when the node is built as it is
integer_eq_reduce(args) ==
    With(Elements(args), LAMBDA es :
    With(Listed(es), LAMBDA listed :
    With({s \in Summands(listed[1]) : \A n \in 1..Len(listed) : s \in Summands(listed[n])},
         LAMBDA common :
    With([n \in 1..Len(listed) |-> Summands(listed[n]) \ common], LAMBDA rest :
    With([n \in 1..Len(listed) |->
            IF rest[n] = {} THEN integer(0)
            ELSE IF Cardinality(rest[n]) = 1 THEN (CHOOSE s \in rest[n] : TRUE)
            ELSE apply(IntegerSumSymbol, Listed(rest[n]), 0)], LAMBDA new_args :
    With(sorted(listed), LAMBDA in_order :
    With({ExprCmp(args[i], args[i + 1]) : i \in 1..(Len(args) - 1)}, LAMBDA order :
    IF Cardinality(es) = 1 THEN boolean(TRUE)
    ELSE IF (\E e \in es : e.sym = IntegerSumSymbol) /\ common # {}
    THEN apply(IntegerEqSymbol, new_args, 0)
    ELSE IF Cardinality(es) < Len(args) THEN apply(IntegerEqSymbol, in_order, 0)
    ELSE IF "ERR" \in order THEN TypeError
    ELSE IF "GT" \in order THEN apply(IntegerEqSymbol, in_order, 0)
    ELSE NoExpr)))))))

\* ValencySymbol.apply and WrapperSymbol.apply; wid is the serial number the
\* WrapperSymbol gets when the arguments fail the check
apply(self, args, wid) ==
    IF AnyRaised(args) THEN FirstRaised(args)
    ELSE IF self.cls = "WrapperSymbol" THEN _ExprImpl(self, args)
    ELSE IF ~check_args(self, [n \in 1..Len(args) |-> args[n].sym.sort])
    THEN _ExprImpl(WrapperSymbol(<<self>>, wid), args)
    ELSE CASE self.cls \in {"BooleanConstSymbol", "IntegerConstSymbol"} ->
                IF Len(args) # 0 THEN AssertionError ELSE _ExprImpl(self, args)
           [] self.cls = "NegatorSymbol" ->
                IF Len(args) # 1 THEN AssertionError ELSE _unary_reduce(self, args[1])
           [] self.cls \in {"BooleanImplicationSymbol", "IntegerDiffSymbol"} ->
                IF Len(args) # 2 THEN AssertionError
                ELSE IF self.cls = "BooleanImplicationSymbol"
                THEN apply(BooleanConnectiveSymbol(FALSE), <<negated(args[1]), args[2]>>, 0)
                ELSE apply(IntegerSumSymbol, <<args[1], negated(args[2])>>, 0)
           [] self.cls \in {"BooleanConnectiveSymbol", "IntegerSumSymbol"} -> ac_reduce(self, args)
           [] self.cls = "BooleanEqSymbol" -> boolean_eq_reduce(args)
           [] self.cls = "IntegerEqSymbol" ->
                With(integer_eq_reduce(args), LAMBDA reduced :
                     IF reduced = NoExpr THEN _ExprImpl(self, args) ELSE reduced)
           [] OTHER -> _ExprImpl(self, args)

boolean_and(args) == apply(BooleanConnectiveSymbol(TRUE), args, 0)
boolean_or(args) == apply(BooleanConnectiveSymbol(FALSE), args, 0)
boolean_implies(a, b) == apply(BooleanImplicationSymbol, <<a, b>>, 0)
boolean_eq(args) == apply(BooleanEqSymbol, args, 0)
integer_eq(args) == apply(IntegerEqSymbol, args, 0)
integer_sum(args) == apply(IntegerSumSymbol, args, 0)
integer_diff(a, b) == apply(IntegerDiffSymbol, <<a, b>>, 0)

(***************************************************************************)
(* The kernel exercised: applications of symbols to bounded argument lists *)
(***************************************************************************)
MaxArgs == 3
NumBool == 3
NumInt == 2
MaxConst == 2

\* the variables that are declared: boolean ones, integer ones, and one of
\* sort UNKNOWN; VariableSymbol is not cached, the serial number is the
\* order of creation
BoolVar(n) == _ExprImpl(VariableSymbol("BOOL", n), <<>>)
IntVar(n) == _ExprImpl(VariableSymbol("INT", NumBool + n), <<>>)
UnknownVar == _ExprImpl(VariableSymbol("UNKNOWN", NumBool + NumInt + 1), <<>>)
DeclaredFun == FunctionSymbol("BOOL", <<"BOOL", "INT">>, 1)

AndSymbol == BooleanConnectiveSymbol(TRUE)
OrSymbol == BooleanConnectiveSymbol(FALSE)

\* all argument lists of at most n expressions of the set S
ArgLists(S, n) == UNION {[1..k -> S] : k \in 0..n}

\* applications of every kind of interpreted symbol to arguments of every sort
InterpretedSymbols ==
    {BooleanConstSymbol(TRUE), IntegerConstSymbol(1), VariableSymbol("BOOL", 1), DeclaredFun,
     NegatorSymbol("BOOL"), NegatorSymbol("INT"), BooleanImplicationSymbol, IntegerDiffSymbol,
     AndSymbol, OrSymbol, BooleanEqSymbol, IntegerEqSymbol, IntegerSumSymbol}
\* a tainted expression of sort BOOL: and(a, x) with x of sort INT
Tainted == apply(AndSymbol, <<BoolVar(1), IntVar(1)>>, 1)
SortedArgs == {BoolVar(1), IntVar(1), UnknownVar, Tainted}
ValencyCalls == InterpretedSymbols \X ArgLists(SortedArgs, MaxArgs)

\* applications of the associative-commutative symbols: a connective to
\* literals and to nodes of the opposite connective over two or three
\* literals (at most one such node among three arguments), the sum to
\* variables, constants and a negated variable
Literals ==
    {BoolVar(n) : n \in 1..NumBool} \cup {negated(BoolVar(n)) : n \in 1..NumBool}
Opposite(S) == BooleanConnectiveSymbol(S.val = 0)
Nodes(S) ==
    {e \in {apply(S, t, 0) : t \in [1..2 -> Literals] \cup [1..3 -> Literals]} : e.sym = S}
ConnectiveArgs(S) ==
    {t \in ArgLists(Literals \cup Nodes(Opposite(S)), MaxArgs) :
        /\ Len(t) >= 1
        /\ Len(t) >= 3 => Cardinality({n \in 1..Len(t) : t[n] \notin Literals}) <= 1}
IntTerms == {IntVar(1), IntVar(2), integer(1), integer(2), negated(IntVar(1))}
AcCalls ==
    ({AndSymbol} \X ConnectiveArgs(AndSymbol))
        \cup ({OrSymbol} \X ConnectiveArgs(OrSymbol))
        \cup ({IntegerSumSymbol} \X (ArgLists(IntTerms, MaxArgs) \ {<<>>}))

\* applications of the sum to integer constants of both signs, zero among
\* them, and to an integer variable, with repetitions
IntConsts == {integer(c) : c \in (0 - MaxConst)..MaxConst}
SumCalls == {IntegerSumSymbol} \X (ArgLists(IntConsts \cup {IntVar(1)}, MaxArgs) \ {<<>>})

\* applications of a connective to a boolean expression a and one of a,
\* a.negated, true, false, in both orders; a is built in at most two steps
\* from two boolean variables and the atom x = 1 of an integer variable x
IntAtom == integer_eq(<<IntVar(1), integer(1)>>)
Atoms == {BoolVar(1), BoolVar(2), IntAtom}
AtomLiterals == Atoms \cup {negated(e) : e \in Atoms}
OneStep ==
    AtomLiterals \cup {apply(S, t, 0) : S \in {AndSymbol, OrSymbol, BooleanEqSymbol},
                                       t \in [1..2 -> AtomLiterals]}
BoolExprs ==
    OneStep \cup {apply(S, <<l, e>>, 0) : S \in {AndSymbol, OrSymbol}, l \in AtomLiterals,
                                         e \in OneStep}
IdentityPairs(e) ==
    UNION {{<<e, d>>, <<d, e>>} : d \in {e, negated(e), boolean(TRUE), boolean(FALSE)}}
IdentityCalls == {AndSymbol, OrSymbol} \X UNION {IdentityPairs(e) : e \in BoolExprs}

\* to_cnf: expr.bottom_up_transform(transform) at the expression e of expr,
\* the value w of e and the clauses that transform has added to eqs up to
\* there; every connective node below the root is replaced by its Tseitin
\* variable
RECURSIVE cnf_transform(_, _)
cnf_transform(e, expr) ==
    With([n \in 1..Len(e.args) |-> cnf_transform(e.args[n], expr)], LAMBDA sub :
    With([n \in 1..Len(e.args) |-> sub[n].w], LAMBDA args :
    With(UNION {sub[n].eqs : n \in 1..Len(e.args)}, LAMBDA below :
    With(IF IsValencySymbol(e.sym) THEN apply(e.sym, args, 0) ELSE _ExprImpl(e.sym, args),
         LAMBDA w :
    With(apply(TseitinVarSymbol(w), <<>>, 0), LAMBDA t :
    IF IsValencySymbol(e.sym) /\ w.sym.cls = "BooleanConnectiveSymbol" /\ e # expr
    THEN [w |-> t,
          eqs |-> below \cup
              {boolean_implies(p[1], p[2]) :
                 p \in IF w.sym.val = 1
                       THEN {<<apply(w.sym, args, 0), t>>}
                                \cup {<<t, args[n]>> : n \in 1..Len(args)}
                       ELSE {<<t, apply(w.sym, args, 0)>>}
                                \cup {<<args[n], t>> : n \in 1..Len(args)}}]
    ELSE [w |-> w, eqs |-> below])))))

\* the orders in which a set of expressions can be iterated
RECURSIVE Orders(_)
Orders(set) ==
    IF set = {} THEN {<<>>}
    ELSE UNION {{<<e>> \o ord : ord \in Orders(set \ {e})} : e \in set}

\* the formulas given to to_cnf: a connective of a literal and a node of the
\* opposite connective over two literals, and a connective of two such
\* nodes over the first two variables
PairNodes(S, k) ==
    {e \in Nodes(S) : /\ Len(e.args) = 2
                      /\ \A n \in 1..2 : e.args[n] \in {BoolVar(m) : m \in 1..k}
                                                    \cup {negated(BoolVar(m)) : m \in 1..k}}
Formulas ==
    UNION {{apply(S, <<l, e>>, 0) : l \in Literals, e \in PairNodes(Opposite(S), NumBool)}
             \cup {apply(S, <<d, e>>, 0) : d \in PairNodes(Opposite(S), 2),
                                           e \in PairNodes(Opposite(S), 2)}
           : S \in {AndSymbol, OrSymbol}}

\* to_cnf(expr); eqs is a set of expressions, the order in which
\* boolean_and(..., *eqs) receives it depends on the hash values
to_cnf(expr) ==
    /\ call.op = "none"
    /\ \E R \in {cnf_transform(expr, expr)} : \E ord \in Orders(R.eqs) :
         call' = [op |-> "to_cnf", symbol |-> AndSymbol, args |-> <<expr>>,
                  result |-> boolean_and(<<R.w>> \o ord)]
    /\ UNCHANGED <<memVars, satVars, smtVars>>

\* Symbol.apply(*args), the outermost call of the kernel. The kernel keeps
\* nothing between two calls but its caches, and an interned expression is
\* the same whenever it is built, so a behaviour is one application and the
\* reads of the attributes of its result
symbol_apply(symbol, args) ==
    /\ call.op = "none"
    /\ call' = [op |-> "apply", symbol |-> symbol, args |-> args,
                result |-> apply(symbol, args, 2)]
    /\ UNCHANGED <<memVars, satVars, smtVars>>

\* e.negated read from the expression the last operation gave
expr_negated ==
    /\ call.op \in {"apply", "negated"}
    /\ ~IsRaised(call.result)
    /\ call' = [op |-> "negated", symbol |-> call.result.sym, args |-> <<call.result>>,
                result |-> negated(call.result)]
    /\ UNCHANGED <<memVars, satVars, smtVars>>

KerInit ==
    /\ KerIdle
    /\ MemIdle
    /\ SatIdle
    /\ SmtIdle

KerNext ==
    \/ \E inp \in ValencyCalls \cup AcCalls \cup IdentityCalls \cup SumCalls :
         symbol_apply(inp[1], inp[2])
    \/ expr_negated
    \/ \E expr \in Formulas : to_cnf(expr)

SpecKer == KerInit /\ [][KerNext]_vars

(***************************************************************************)
(* Claims about the expression kernel                                      *)
(***************************************************************************)

\* the number of arguments the valency of a symbol allows, and the sort it
\* requires of each; an argument of sort UNKNOWN is taken to fit any place
ArityOk(symbol, n) ==
    CASE symbol.cls \in {"BooleanConstSymbol", "IntegerConstSymbol", "VariableSymbol"} -> n = 0
      [] symbol.cls = "NegatorSymbol" -> n = 1
      [] symbol.cls \in {"BooleanImplicationSymbol", "IntegerDiffSymbol"} -> n = 2
      [] symbol.cls = "FunctionSymbol" -> n = Len(symbol.of)
      [] OTHER -> n >= 1
RequiredSort(symbol, n) ==
    CASE symbol.cls = "NegatorSymbol" -> symbol.sort
      [] symbol.cls \in {"BooleanImplicationSymbol", "BooleanConnectiveSymbol",
                         "BooleanEqSymbol"} -> "BOOL"
      [] symbol.cls = "FunctionSymbol" -> symbol.of[n]
      [] OTHER -> "INT"
Permitted(symbol, args) ==
    /\ ArityOk(symbol, Len(args))
    /\ \A n \in 1..Len(args) :
         args[n].sym.sort \in {"UNKNOWN", RequiredSort(symbol, n)}

\* the Wrapper node C20 asks for
IsWrapperOf(e, symbol, args) ==
    /\ e.sym.cls = "WrapperSymbol"
    /\ e.sym.of = <<symbol>>
    /\ e.args = args
    /\ has_wrappers(e)

\* C20: applying an interpreted symbol to an argument list its valency does
\* not permit (wrong number of arguments or an argument of the wrong sort)
\* returns a Wrapper node that carries the symbol and the given arguments
\* and is tainted, for every combination of argument sorts including UNKNOWN;
\* it is never an interpreted node or an internal failure
C20_InvalidArgsWrapped ==
    (call.op = "apply" /\ ~Permitted(call.symbol, call.args))
        => IsWrapperOf(call.result, call.symbol, call.args)

\* the same statement for argument lists without an argument of sort UNKNOWN
C20_KnownSortsWrapped ==
    (/\ call.op = "apply"
     /\ ~Permitted(call.symbol, call.args)
     /\ \A n \in 1..Len(call.args) : call.args[n].sym.sort # "UNKNOWN")
        => IsWrapperOf(call.result, call.symbol, call.args)

\* no wrapper and no expression of sort UNKNOWN occurs in e
RECURSIVE WellSorted(_)
WellSorted(e) ==
    /\ e.sym.cls # "WrapperSymbol"
    /\ e.sym.sort # "UNKNOWN"
    /\ \A n \in 1..Len(e.args) : WellSorted(e.args[n])

\* C17: for every expression e that can be constructed (variables, constants,
\* and/or, equalities, sums, uninterpreted applications, wrappers)
\* e.negated.negated is the same object as e
C17_DoubleNegation ==
    call.op = "negated" => negated(call.result) = call.args[1]

\* the same statement for the expressions without a wrapper and without a
\* subexpression of sort UNKNOWN
C17_WellSortedDoubleNegation ==
    (call.op = "negated" /\ WellSorted(call.args[1])) => negated(call.result) = call.args[1]

\* the argument list xs in the order given by the permutation f
Permuted(xs, f) == [n \in 1..Len(xs) |-> xs[f[n]]]

\* the arguments of e are in the order of the expressions
ArgsSorted(e) == \A n \in 1..(Len(e.args) - 1) : ExprCmp(e.args[n], e.args[n + 1]) \in {"LT", "EQ"}

\* C16: for an associative-commutative symbol S (and, or, integer sum) and
\* argument lists that are the same multiset, in any order and with any
\* nesting of S inside its own arguments, S.apply gives the same interned
\* expression, and the arguments of the result are sorted by the order on
\* expressions
C16_SameMultisetSameExpr ==
    (call.op = "apply" /\ <<call.symbol, call.args>> \in AcCalls) =>
        /\ ~IsRaised(call.result)
        /\ \A f \in Permutations(1..Len(call.args)) :
             apply(call.symbol, Permuted(call.args, f), 2) = call.result
        /\ \A f \in Permutations(1..Len(call.args)) : \A k \in 1..(Len(call.args) - 1) :
             LET xs == Permuted(call.args, f) IN
             apply(call.symbol, <<apply(call.symbol, SubSeq(xs, 1, k), 2)>>
                                   \o SubSeq(xs, k + 1, Len(xs)), 2) = call.result
        /\ call.result.sym = call.symbol => ArgsSorted(call.result)

\* the same statement for the lists of two arguments: both orders give one
\* expression with sorted arguments
C16_PairsSameExpr ==
    (call.op = "apply" /\ <<call.symbol, call.args>> \in AcCalls /\ Len(call.args) = 2) =>
        /\ ~IsRaised(call.result)
        /\ apply(call.symbol, <<call.args[2], call.args[1]>>, 2) = call.result
        /\ call.result.sym = call.symbol => ArgsSorted(call.result)

\* what C18 says of S applied to the pair (d, e), one of which is the other,
\* its negation, true or false: a for (a, a), (a, neutral); the absorbing
\* constant for (a, not a), (a, absorbing)
IdentityValue(S, d, e) ==
    LET neutral == boolean(S.val = 1)
        absorbing == boolean(S.val = 0)
    IN IF e = negated(d) THEN absorbing
       ELSE IF d = e THEN d
       ELSE IF d = neutral THEN e
       ELSE IF e = neutral THEN d
       ELSE absorbing

\* e is built from boolean variables only
RECURSIVE OverVariables(_)
OverVariables(e) ==
    /\ e.sym.cls \in {"VariableSymbol", "NegatorSymbol", "BooleanConnectiveSymbol"}
    /\ \A n \in 1..Len(e.args) : OverVariables(e.args[n])

\* C18: for all boolean expressions a, in either argument order, and(a, not a)
\* is false, or(a, not a) is true, and(a, a) is a, or(a, a) is a, and(a, true)
\* is a, and(a, false) is false, or(a, false) is a, or(a, true) is true, each
\* as the same interned object
C18_ConstantIdentities ==
    (call.op = "apply" /\ <<call.symbol, call.args>> \in IdentityCalls) =>
        call.result = IdentityValue(call.symbol, call.args[1], call.args[2])

\* the same statement for the expressions a over boolean variables only
C18_VariableIdentities ==
    (/\ call.op = "apply"
     /\ <<call.symbol, call.args>> \in IdentityCalls
     /\ OverVariables(call.args[1])
     /\ OverVariables(call.args[2])) =>
        call.result = IdentityValue(call.symbol, call.args[1], call.args[2])

\* the calls C19 speaks of for the connective S, its opposite O and the
\* variables a and b, each with the expression the claim gives for it
AbsorptionCases(S, a, b) ==
    LET O == Opposite(S)
        both == {apply(O, <<a, b>>, 0), apply(O, <<b, a>>, 0)}
        other == {apply(O, <<negated(a), b>>, 0), apply(O, <<b, negated(a)>>, 0)}
    IN UNION {{<< <<a, n>>, a >>, << <<n, a>>, a >>} : n \in both}
         \cup UNION {{<< <<n, m>>, b >>, << <<m, n>>, b >>} : n \in both, m \in other}
         \cup UNION {{<< <<n, negated(a)>>, apply(S, <<negated(a), b>>, 0) >>,
                      << <<negated(a), n>>, apply(S, <<negated(a), b>>, 0) >>} : n \in both}

\* C19: for all boolean variables a and b, in any argument order,
\* and(a, or(a, b)) is a, or(a, and(a, b)) is a, or(and(a, b), and(not a, b))
\* is b, and(or(a, b), or(not a, b)) is b, or(and(a, b), not a) is
\* or(not a, b) and and(or(a, b), not a) is and(not a, b)
C19_AbsorptionConsensus ==
    (call.op = "apply" /\ call.symbol \in {AndSymbol, OrSymbol}) =>
        \A n \in 1..NumBool : \A m \in 1..NumBool :
            \A case \in AbsorptionCases(call.symbol, BoolVar(n), BoolVar(m)) :
                call.args = case[1] => call.result = case[2]

\* or(and(a, b), and(not a, b)) was built for two different variables and is b
C19_Witness ==
    /\ call.op = "apply"
    /\ call.symbol = OrSymbol
    /\ call.args = <<_ExprImpl(AndSymbol, <<BoolVar(1), BoolVar(2)>>),
                     _ExprImpl(AndSymbol, <<_ExprImpl(NegatorSymbol("BOOL"), <<BoolVar(1)>>),
                                            BoolVar(2)>>)>>
    /\ call.result = BoolVar(2)

\* the atoms of a boolean expression, and its truth value when env is the
\* set of the atoms that are true
RECURSIVE AtomsOf(_)
AtomsOf(e) ==
    IF e.sym.cls = "BooleanConstSymbol" THEN {}
    ELSE IF e.sym.cls \in {"NegatorSymbol", "BooleanConnectiveSymbol"}
    THEN UNION {AtomsOf(e.args[n]) : n \in 1..Len(e.args)}
    ELSE {e}
RECURSIVE Holds(_, _)
Holds(e, env) ==
    CASE e.sym.cls = "BooleanConstSymbol" -> e.sym.val = 1
      [] e.sym.cls = "NegatorSymbol" -> ~Holds(e.args[1], env)
      [] e.sym.cls = "BooleanConnectiveSymbol" ->
           IF e.sym.val = 1 THEN \A n \in 1..Len(e.args) : Holds(e.args[n], env)
           ELSE \E n \in 1..Len(e.args) : Holds(e.args[n], env)
      [] OTHER -> e \in env

\* a literal, a clause, a conjunction of clauses (a constant counts as one)
IsLiteral(e) ==
    \/ e.sym.cls \in {"VariableSymbol", "TseitinVarSymbol"} /\ e.args = <<>>
    \/ /\ e.sym.cls = "NegatorSymbol"
       /\ e.args[1].sym.cls \in {"VariableSymbol", "TseitinVarSymbol"}
       /\ e.args[1].args = <<>>
IsClause(e) ==
    \/ IsLiteral(e)
    \/ e.sym = OrSymbol /\ \A n \in 1..Len(e.args) : IsLiteral(e.args[n])
IsCnf(e) ==
    \/ IsClause(e)
    \/ e.sym.cls = "BooleanConstSymbol"
    \/ e.sym = AndSymbol /\ \A n \in 1..Len(e.args) : IsClause(e.args[n])

\* every model of cnf, restricted to the atoms of phi, satisfies phi
ModelsRestrict(phi, cnf) ==
    \A env \in SUBSET (AtomsOf(phi) \cup AtomsOf(cnf)) :
        Holds(cnf, env) => Holds(phi, env \cap AtomsOf(phi))

\* every model of phi extends to the other atoms of cnf
ModelsExtend(phi, cnf) ==
    \A env \in SUBSET AtomsOf(phi) :
        Holds(phi, env) =>
            \E ext \in SUBSET (AtomsOf(cnf) \ AtomsOf(phi)) : Holds(cnf, env \cup ext)

\* C15: for every boolean expression phi over bounded sets of atoms to_cnf(phi)
\* is a conjunction of clauses over atoms, negated atoms and Tseitin
\* variables, satisfiable exactly when phi is: every model of phi extends to
\* the Tseitin variables, and every model of the result restricted to the
\* atoms of phi satisfies phi
C15_CnfEquisatisfiable ==
    call.op = "to_cnf" =>
        /\ IsCnf(call.result)
        /\ ModelsExtend(call.args[1], call.result)
        /\ ModelsRestrict(call.args[1], call.result)

\* the half of the statement that does not depend on the simplifier being
\* complete: the result is a conjunction of clauses, and its models satisfy phi
C15_CnfImpliesFormula ==
    call.op = "to_cnf" =>
        /\ IsCnf(call.result)
        /\ ModelsRestrict(call.args[1], call.result)

(***************************************************************************)
(* C37: sums of integer constants                                          *)
(***************************************************************************)

\* the sum of the values of the constants of an argument list
RECURSIVE ConstTotal(_)
ConstTotal(args) ==
    IF args = <<>> THEN 0
    ELSE (IF Head(args).sym.cls = "IntegerConstSymbol" THEN Head(args).sym.val ELSE 0)
         + ConstTotal(Tail(args))

\* the arguments that are not constants
NonConstants(args) == SelectSeq(args, LAMBDA e : e.sym.cls # "IntegerConstSymbol")

\* the sum of the first k arguments, built first, added to the other ones
NestedSum(args, k) ==
    integer_sum(<<integer_sum(SubSeq(args, 1, k))>> \o SubSeq(args, k + 1, Len(args)))

\* C37: integer_sum of integer constants c1..cn, repeated constants allowed,
\* is the constant of c1 + ... + cn, also when a part of the sum is built
\* first and passed as an argument, and its negated is the constant of
\* -(c1 + ... + cn); among arguments that are not all constants the
\* constants are folded into one, a zero is dropped, and a sum left with one
\* argument is that argument.
C37_SumOfConstantsFolds ==
    (call.op = "apply" /\ <<call.symbol, call.args>> \in SumCalls) =>
        LET total == ConstTotal(call.args)
            others == NonConstants(call.args)
            rest == IF total = 0 THEN others ELSE <<integer(total)>> \o others
        IN /\ others = <<>> =>
                /\ call.result = integer(total)
                /\ negated(call.result) = integer(0 - total)
           /\ \A k \in 1..Len(call.args) : NestedSum(call.args, k) = call.result
           /\ Len(rest) = 1 => call.result = rest[1]
           /\ Len(rest) > 1 => call.result = _ExprImpl(IntegerSumSymbol, sorted(rest))

\* three constants, a zero and a negative one among them, were summed
C37_Witness ==
    /\ call.op = "apply"
    /\ call.symbol = IntegerSumSymbol
    /\ call.args = <<integer(2), integer(0), integer(0 - 1)>>
    /\ call.result = integer(1)

(***************************************************************************)
(* The reduction loop of an associative-commutative symbol, pass by pass   *)
(***************************************************************************)
\* the passes of "while len(tasks) > 0" that one call is followed for
MaxPasses == 16

\* the argument lists _reduce is called with
ReduceCalls == AcCalls \cup SumCalls

\* _reduce is entered: the arguments are flattened and the first task is
\* on the task list
_reduce_enter(self, args) ==
    /\ call.op = "none"
    /\ call' = [op |-> "reduce", symbol |-> self, args |-> args, result |-> NoExpr,
                loop |-> ac_start(self, args), passes |-> 0]
    /\ UNCHANGED <<memVars, satVars, smtVars>>

\* one pass of "while len(tasks) > 0"
_reduce_pass ==
    /\ call.op = "reduce"
    /\ call.loop.err = NoExpr
    /\ call.loop.tasks # <<>>
    /\ call.passes < MaxPasses
    /\ \E T \in {ac_task(call.symbol, call.loop)} :
         call' = [call EXCEPT !.loop = T, !.passes = @ + 1]
    /\ UNCHANGED <<memVars, satVars, smtVars>>

\* the loop is left, with no task or by an exception of _binary_reduce, and
\* _reduce returns
_reduce_return ==
    /\ call.op = "reduce"
    /\ call.loop.err # NoExpr \/ call.loop.tasks = <<>>
    /\ \E e \in {ac_finish(call.symbol, call.loop)} :
         call' = [call EXCEPT !.op = "return", !.result = e]
    /\ UNCHANGED <<memVars, satVars, smtVars>>

ReduceNext ==
    \/ \E inp \in ReduceCalls : _reduce_enter(inp[1], inp[2])
    \/ _reduce_pass
    \/ _reduce_return

\* a step of the loop, and the states that have one: _reduce is entered and
\* has not returned (a pass is not followed beyond MaxPasses)
LoopStep == _reduce_pass \/ _reduce_return
LoopEnabled ==
    /\ call.op = "reduce"
    /\ call.loop.err = NoExpr /\ call.loop.tasks # <<>> => call.passes < MaxPasses

\* the loop is sequential code: once _reduce is entered, a step that can run
\* does run.  This is the weak fairness WF_vars(LoopStep), written with
\* LoopEnabled for ENABLED <<LoopStep>>_vars
LoopFair == []<>(~LoopEnabled) \/ []<><<LoopStep>>_vars

SpecReduce == KerInit /\ [][ReduceNext]_vars /\ LoopFair

\* the expressions the loop has left
Remaining(T) == {T.ite[i] : i \in T.res}

\* no ordered pair of expressions at distinct places of res reduces
Irreducible(self, T) ==
    \A a \in T.res : \A b \in T.res \ {a} : _binary_reduce(self, T.ite[a], T.ite[b]) = NoExpr

\* C38: for every argument list of an associative-commutative symbol the
\* reduction loop comes to its end, and when it has ended without an
\* exception no ordered pair of distinct remaining arguments is reducible by
\* _binary_reduce; the expression returned is built of the remaining
\* arguments.
C38_ReduceEndsIrreducible ==
    /\ (call.op = "reduce") ~> (call.op = "return")
    /\ [](call.op = "return" /\ call.loop.err = NoExpr =>
            /\ call.loop.tasks = <<>>
            /\ Irreducible(call.symbol, call.loop)
            /\ call.result = ac_reduce(call.symbol, call.args))

\* 2 + x + (-1): the first pass made the constant 1, three more passes
\* paired it with x, and x and 1 are left
C38_Witness ==
    /\ call.op = "return"
    /\ call.symbol = IntegerSumSymbol
    /\ call.args = <<integer(2), IntVar(1), integer(0 - 1)>>
    /\ call.passes = 4
    /\ Remaining(call.loop) = {IntVar(1), integer(1)}
    /\ call.result = _ExprImpl(IntegerSumSymbol, sorted(<<integer(1), IntVar(1)>>))

(***************************************************************************)
(* SMT-LIB interpreter                                                     *)
(***************************************************************************)
MaxCommands == 5

\* the nodes of a term as the parser builds them; every node is consistent
IdentNode(name) ==
    [tag |-> "ident", name |-> name, value |-> 0, args |-> <<>>, bindings |-> <<>>]
NumberNode(value) ==
    [tag |-> "number", name |-> "", value |-> value, args |-> <<>>, bindings |-> <<>>]
CallExprNode(ident, args) ==
    [tag |-> "call", name |-> ident, value |-> 0, args |-> args, bindings |-> <<>>]
LetExprNode(bindings, term) ==
    [tag |-> "let", name |-> "", value |-> 0, args |-> <<term>>, bindings |-> bindings]

\* Message: the text with its parameters, the position is left out
Message(text, name, n) == <<text, name, n>>

\* SymbolTable.__standard_symbols
standard_symbols ==
    ("true" :> BooleanConstSymbol(TRUE)) @@ ("false" :> BooleanConstSymbol(FALSE)) @@
    ("not" :> NegatorSymbol("BOOL")) @@
    ("and" :> BooleanConnectiveSymbol(TRUE)) @@ ("or" :> BooleanConnectiveSymbol(FALSE)) @@
    ("=>" :> BooleanImplicationSymbol) @@ ("+" :> IntegerSumSymbol)

\* SymbolTable.__standard_polymorphic_symbols
standard_polymorphic_symbols == {"=", "-"}

\* SymbolTable.is_standard_symbol
is_standard_symbol(name) ==
    name \in DOMAIN standard_symbols \/ name \in standard_polymorphic_symbols

\* what one transaction holds: the entries written to name_to_symbol (unique
\* and overriding), the keys written to symbol_to_name, and the expressions
\* added to the assertions; nothing is ever deleted from the three
NoChunks == [names |-> <<>>, symbols |-> {}, added |-> {}]

\* SymbolTable.__init__: the names of the standard symbols go to the base
\* transaction
BaseChunks ==
    [names |-> <<>>,
     symbols |-> {standard_symbols[n] : n \in DOMAIN standard_symbols}
                 \cup {BooleanEqSymbol, IntegerEqSymbol, NegatorSymbol("INT"), IntegerDiffSymbol},
     added |-> {}]

\* TransactionalMapping.__getitem__ on name_to_symbol, top transaction first;
\* <<>> stands for KeyError
RECURSIVE name_to_symbol(_, _, _)
name_to_symbol(stack, n, name) ==
    IF n = 0 THEN <<>>
    ELSE IF name \in DOMAIN stack[n].names THEN <<stack[n].names[name]>>
    ELSE name_to_symbol(stack, n - 1, name)

\* TransactionalMapping.top_contains
top_contains(stack, name) == name \in DOMAIN stack[Len(stack)].names

\* Mapping.__contains__ on symbol_to_name
symbol_to_name_contains(stack, symbol) == \E n \in 1..Len(stack) : symbol \in stack[n].symbols

\* TransactionalSet.__iter__ on the assertions
assertions(stack) == UNION {stack[n].added : n \in 1..Len(stack)}

\* SymbolTable.__iter__ before it sorts: the keys of name_to_symbol
declared_names(stack) == UNION {DOMAIN stack[n].names : n \in 1..Len(stack)}

\* SymbolTable.get_symbol; <<>> stands for None
get_symbol(stack, name, arg_sorts) ==
    IF name \in DOMAIN standard_symbols THEN <<standard_symbols[name]>>
    ELSE IF name = "="
    THEN (IF Len(arg_sorts) > 0 /\ arg_sorts[1] = "INT" THEN <<IntegerEqSymbol>>
          ELSE <<BooleanEqSymbol>>)
    ELSE IF name = "-"
    THEN (IF Len(arg_sorts) = 1 THEN <<NegatorSymbol("INT")>> ELSE <<IntegerDiffSymbol>>)
    ELSE name_to_symbol(stack, Len(stack), name)

\* the interpreter while it runs a command: the arena, the messages, the
\* serial number of the next object, the exception on its way out, and the
\* expression on top of _ExprStack (or what a callee returned)
Running == [stack |-> transactions, ms |-> ms, serial |-> serial, exc |-> "None", val |-> NoExpr]

\* SymbolTable.declare; val is the returned flag
declare(st, name, symbol) ==
    IF is_standard_symbol(name) \/ top_contains(st.stack, name)
    THEN [st EXCEPT !.val = FALSE]
    ELSE LET top == Len(st.stack)
             s1 == [st EXCEPT !.stack[top].names = DictSet(@, name, symbol)]
         IN IF symbol_to_name_contains(st.stack, symbol)
            THEN [s1 EXCEPT !.exc = "AssertionError"]
            ELSE [s1 EXCEPT !.stack[top].symbols = @ \cup {symbol}, !.val = TRUE]

\* Smtlib.__declare_symbol for a consistent identifier
declare_symbol(st, name, symbol) ==
    With(declare(st, name, symbol), LAMBDA D :
    IF D.exc # "None" \/ D.val THEN D
    ELSE IF is_standard_symbol(name)
    THEN [D EXCEPT !.ms = @ \cup {Message("invalid declaration, builtin symbol", name, 0)}]
    ELSE [D EXCEPT !.ms = @ \cup {Message("invalid declaration, symbol already declared", name, 0)}])

\* the messages of Smtlib.__apply_symbol about the arguments of a call whose
\* result is a Wrapper
argument_messages(symbol, name, arg_sorts) ==
    LET args_num == Len(arg_sorts)
        extra == {i \in 0..(args_num - 1) : get_arg_sort(symbol, i, TRUE) = "None"}
        stop == IF extra = {} THEN args_num ELSE CHOOSE i \in extra : \A k \in extra : i <= k
    IN {Message("sort mismatch at argument for function", name, i + 1) :
          i \in {k \in 0..(stop - 1) : /\ arg_sorts[k + 1] # "UNKNOWN"
                                       /\ arg_sorts[k + 1] # get_arg_sort(symbol, k, TRUE)}}
       \cup (IF extra = {} THEN {}
             ELSE {Message("extra argument passed to function", name, 0)})
       \cup (IF get_arg_sort(symbol, args_num, FALSE) = "None" THEN {}
             ELSE {Message("not enough arguments passed to function", name, args_num)})

\* Smtlib.__apply_symbol: es are the expressions taken off the stack
apply_symbol(st, name, es) ==
    With([n \in 1..Len(es) |-> es[n].sym.sort], LAMBDA arg_sorts :
    With(get_symbol(st.stack, name, arg_sorts), LAMBDA found :
    With(IF found = <<>> THEN WrapperSymbol(<<>>, st.serial) ELSE found[1], LAMBDA symbol :
    With(IF found # <<>> THEN st
         ELSE [declare([st EXCEPT !.ms = @ \cup {Message("symbol not declared", name, 0)}],
                       name, symbol)
               EXCEPT !.serial = @ + 1], LAMBDA s1 :
    With(apply(symbol, es, s1.serial), LAMBDA expr :
    IF IsRaised(expr) THEN [s1 EXCEPT !.exc = expr.sym.cls]
    ELSE [s1 EXCEPT !.val = expr,
                    !.serial = @ + 1,
                    !.ms = IF IsValencySymbol(symbol) /\ expr.sym.cls = "WrapperSymbol"
                           THEN @ \cup argument_messages(symbol, name, arg_sorts)
                           ELSE @])))))

\* Expr.substitute: bottom_up_transform with the table of a let expression
RECURSIVE substitute(_, _, _)
substitute(e, table, wid) ==
    With([n \in 1..Len(e.args) |-> substitute(e.args[n], table, wid)], LAMBDA values :
    IF AnyRaised(values) THEN FirstRaised(values)
    ELSE IF ~IsValencySymbol(e.sym) THEN _ExprImpl(e.sym, values)
    ELSE IF e \in DOMAIN table THEN table[e]
    ELSE apply(e.sym, values, wid))

\* Memory.begin_transaction on the interpreter's arena
begin(st) == [st EXCEPT !.stack = Append(@, NoChunks)]

\* the loop of _visit_let_expr_node and of _visit_define_fun_node that makes a
\* variable for every binding and declares it; val collects the variables
RECURSIVE declare_variables(_, _, _, _)
declare_variables(st, names, sorts, made) ==
    IF names = <<>> THEN [st EXCEPT !.val = made]
    ELSE With(VariableSymbol(Head(sorts), st.serial), LAMBDA var :
         With(declare_symbol([st EXCEPT !.serial = @ + 1], Head(names), var), LAMBDA D :
         IF D.exc # "None" THEN D
         ELSE declare_variables(D, Tail(names), Tail(sorts), Append(made, var))))

\* Smtlib._visit for the nodes of a term; the result holds the expression the
\* visit pushed, or the exception that ended it
RECURSIVE visit(_, _)
RECURSIVE visit_all(_, _, _)
RECURSIVE _visit_let_expr_node(_, _)
visit(st, node) ==
    CASE node.tag = "number" -> [st EXCEPT !.val = integer(node.value)]
      [] node.tag = "ident" -> apply_symbol(st, node.name, <<>>)
      [] node.tag = "call" ->
           With(visit_all(st, node.args, <<>>), LAMBDA A :
                IF A.exc # "None" THEN A ELSE apply_symbol(A, node.name, A.val))
      [] OTHER -> _visit_let_expr_node(st, node)

\* the terms of a list visited from left to right; val collects the expressions
visit_all(st, nodes, es) ==
    IF nodes = <<>> THEN [st EXCEPT !.val = es]
    ELSE With(visit(st, Head(nodes)), LAMBDA R :
         IF R.exc # "None" THEN R
         ELSE visit_all(R, Tail(nodes), Append(es, R.val)))

\* Smtlib._visit_let_expr_node: an exception between begin_transaction and
\* rollback leaves the transaction on the arena
_visit_let_expr_node(st, node) ==
    With(visit_all(st, [n \in 1..Len(node.bindings) |-> node.bindings[n][2]], <<>>), LAMBDA B :
    IF B.exc # "None" THEN B
    ELSE With(B.val, LAMBDA es :
         With(Len(B.stack), LAMBDA index :
         With(declare_variables(begin(B),
                                [n \in 1..Len(es) |-> node.bindings[n][1]],
                                [n \in 1..Len(es) |-> es[n].sym.sort], <<>>), LAMBDA D :
         IF D.exc # "None" THEN D
         ELSE With(D.val, LAMBDA vars_made :
              With([k \in {_ExprImpl(vars_made[n], <<>>) : n \in 1..Len(es)} |->
                      es[CHOOSE n \in 1..Len(es) : _ExprImpl(vars_made[n], <<>>) = k]],
                   LAMBDA table :
              With(visit(D, node.args[1]), LAMBDA R :
              IF R.exc # "None" THEN R
              ELSE With(substitute(R.val, table, R.serial), LAMBDA expr :
                   IF IsRaised(expr) THEN [R EXCEPT !.exc = expr.sym.cls]
                   ELSE [R EXCEPT !.val = expr,
                                  !.serial = @ + 1,
                                  !.stack = truncate(@, index)]))))))))

\* the end of a command: what the visit left becomes the state of the
\* interpreter, an exception leaves Smtlib.execute
Finish(st) ==
    /\ transactions' = st.stack
    /\ ms' = st.ms
    /\ serial' = st.serial
    /\ raised' = st.exc
    /\ executed' = executed + 1

\* a command can start: the script has not ended with an exception
Ready == raised = "None" /\ executed < MaxCommands

\* Smtlib._visit_declare_const_node
_visit_declare_const_node(ident, sort) ==
    /\ Ready
    /\ Finish(declare_symbol([Running EXCEPT !.serial = @ + 1], ident,
                             VariableSymbol(sort, serial)))
    /\ UNCHANGED <<printed, model>>
    /\ UNCHANGED <<memVars, satVars, kerVars>>

\* Smtlib._visit_assert_node
_visit_assert_node(term) ==
    /\ Ready
    /\ \E R \in {visit(Running, term)} : \E expr \in {R.val} :
          IF R.exc # "None" THEN Finish(R)
          ELSE Finish([R EXCEPT
                 !.ms = IF expr.sym.sort # "UNKNOWN" /\ expr.sym.sort # "BOOL"
                        THEN @ \cup {Message("invalid assert command, term is not Bool", "", 0)}
                        ELSE @,
                 !.stack[Len(R.stack)].added =
                        IF ~has_wrappers(expr) /\ expr \notin assertions(R.stack)
                        THEN @ \cup {expr} ELSE @])
    /\ UNCHANGED <<printed, model>>
    /\ UNCHANGED <<memVars, satVars, kerVars>>

\* Smtlib._visit_declare_fun_node
_visit_declare_fun_node(ident, arg_sorts, sort) ==
    /\ Ready
    /\ Finish(declare_symbol([Running EXCEPT !.serial = @ + 1], ident,
                             FunctionSymbol(sort, arg_sorts, serial)))
    /\ UNCHANGED <<printed, model>>
    /\ UNCHANGED <<memVars, satVars, kerVars>>

\* Smtlib._visit_define_fun_node for formals <<name, sort>>: an exception
\* between begin_transaction and rollback leaves the transaction on the arena
_visit_define_fun_node(ident, formals, sort, term) ==
    /\ Ready
    /\ \E D \in {declare_variables(begin(Running),
                                   [n \in 1..Len(formals) |-> formals[n][1]],
                                   [n \in 1..Len(formals) |-> formals[n][2]], <<>>)} :
          IF D.exc # "None" THEN Finish(D)
          ELSE \E R \in {visit(D, term)} :
                 IF R.exc # "None" THEN Finish(R)
                 ELSE \E body \in {R.val} :
                        Finish(declare_symbol(
                            [R EXCEPT !.stack = truncate(@, Len(transactions)),
                                      !.ms = IF IsValencySymbol(body.sym) /\ sort # body.sym.sort
                                             THEN @ \cup {Message("invalid function definition, sort mismatch",
                                                                  "", 0)}
                                             ELSE @],
                            ident, MacroSymbol(sort, D.val, body)))
    /\ UNCHANGED <<printed, model>>
    /\ UNCHANGED <<memVars, satVars, kerVars>>

\* Smtlib.assertion: the set is iterated in the order of the hash values, so
\* boolean_and can receive the assertions in any order
assertion_values(stack) ==
    IF assertions(stack) = {} THEN {boolean(TRUE)}
    ELSE {boolean_and(order) : order \in Orders(assertions(stack))}

\* the values to_cnf(expr) can return, see the action to_cnf
to_cnf_values(expr) ==
    IF IsRaised(expr) THEN {expr}
    ELSE IF expr.sym.sort # "BOOL" THEN {AssertionError}
    ELSE With(cnf_transform(expr, expr), LAMBDA R :
              {boolean_and(<<R.w>> \o ord) : ord \in Orders(R.eqs)})

\* Model.__init__: the arguments of the conjunction, and Model.__make_clause:
\* the literals of one of them
clause_exprs(cnf_expr) == IF cnf_expr.sym = AndSymbol THEN cnf_expr.args ELSE <<cnf_expr>>
literal_exprs(e) == IF e.sym = OrSymbol THEN e.args ELSE <<e>>

\* the expression a LiteralPos is made for, the one of expr and expr.negated
\* that is not the negation
AtomOf(e) == IF e.sym.cls = "NegatorSymbol" THEN e.args[1] ELSE e
AtomsIn(cnf_expr) ==
    UNION {{AtomOf(literal_exprs(c)[m]) : m \in 1..Len(literal_exprs(c))} :
             c \in Elements(clause_exprs(cnf_expr))}

\* the literals of the engine are the integers of Lits: the atoms of the
\* formula are numbered in the order of their expressions
AtomIndex(atoms, e) == 1 + Cardinality({b \in atoms : ExprCmp(b, e) = "LT"})
LiteralOf(atoms, e) ==
    IF e.sym.cls = "BooleanConstSymbol" THEN (IF e.sym.val = 0 THEN Sentinel ELSE TrueLit)
    ELSE IF e.sym.cls = "NegatorSymbol" THEN 0 - AtomIndex(atoms, e.args[1])
    ELSE AtomIndex(atoms, e)

\* the formulas the engine is modelled for: at most NumVars atoms that can be
\* compared with each other; a constant is the whole formula or no part of it
Solvable(cnf_expr) ==
    LET atoms == AtomsIn(cnf_expr) IN
    /\ Cardinality(atoms) <= NumVars
    /\ \A e \in atoms : e.sym.cls = "BooleanConstSymbol" => e = cnf_expr
    /\ \A e, b \in atoms : ExprCmp(e, b) # "ERR"

\* the assertions of Model.__make_literal and of Literal.__init__
literal_fails(cnf_expr) ==
    \E c \in Elements(clause_exprs(cnf_expr)) : \E m \in 1..Len(literal_exprs(c)) :
        \/ literal_exprs(c)[m].sym.cls = "BooleanConnectiveSymbol"
        \/ literal_exprs(c)[m].sym.sort # "BOOL"

\* the engine before the first clause is made, see SatInit
NewEngine ==
    Engine([literals |-> <<>>, border |-> 0, top_decision |-> Sentinel, i |-> 0, j |-> 0],
           [index |-> [v \in 0..NumVars |-> 0],
            link |-> [v \in 0..NumVars |-> 0 - v],
            antecedent |-> [v \in 0..NumVars |-> NoClause]],
           [l \in Lits \cup {Sentinel, TrueLit} |-> <<>>],
           <<>>)

\* the loop of Model.__init__ over the arguments of the conjunction: M holds
\* the engine S and the counter Model.__literals
RECURSIVE make_clauses(_, _, _)
make_clauses(M, atoms, cs) ==
    IF cs = <<>> THEN M
    ELSE With(literal_exprs(Head(cs)), LAMBDA es :
         With([m \in 1..Len(es) |-> LiteralOf(atoms, es[m])], LAMBDA literals :
         make_clauses([S |-> Clause(M.S, SortedLits(Elements(literals))),
                       counter |-> CountLits(M.counter, literals)],
                      atoms, Tail(cs))))

\* the rest of Model.__init__: Assignment.__init__ over the counted literals,
\* see new_assignment
Assignment(S, literals) ==
    [S EXCEPT !.a = [literals |-> [n \in 0..Len(literals) |->
                                     IF n = 0 THEN Sentinel ELSE literals[n]],
                     border |-> 1, top_decision |-> Sentinel, i |-> 1, j |-> 0],
              !.p.index = [v \in 0..NumVars |->
                             IF \E n \in 1..Len(literals) : Var(literals[n]) = v
                             THEN CHOOSE n \in 1..Len(literals) : Var(literals[n]) = v
                             ELSE 0]]

\* Model.solve as one call: the engine it ends with, the status, and err when
\* an assertion fails or an exception leaves it
RECURSIVE solve(_)
solve(S0) ==
    With(get_suspicious_clause(S0), LAMBDA R :
    With(Engine(R.a, R.p, R.w, R.wl), LAMBDA S :
    LET Stop(st, err) == [S |-> S, status |-> st, err |-> err]
    IN IF R.err # "None" THEN Stop("None", R.err)
       ELSE IF R.ret = NoClause
       THEN (IF S.a.border = Count(S.a.literals) THEN Stop("SAT", "None")
             ELSE With(make_decision(S, S.a.literals[S.a.border]), LAMBDA D :
                  IF D.err # "None" THEN Stop("None", D.err) ELSE solve(D)))
       ELSE IF is_conflict(S, R.ret)
       THEN With(analyze_conflict(S, R.ret), LAMBDA A :
            IF A.err # "None" THEN Stop("None", A.err)
            ELSE IF A.res = <<>> THEN Stop("None", "IndexError")
            ELSE IF Len(A.res) = 1 /\ S.p.link[Var(A.res[1])] = Sentinel
            THEN Stop("UNSAT", "None")
            ELSE With(backtrack_lit(S, A.res), LAMBDA b :
                 With(IF b = NoLit THEN S ELSE backtrack(S, b), LAMBDA B :
                 IF b # NoLit /\ Len(A.res) > 1 /\ b = Sentinel
                 THEN Stop("None", "solve.backtrack_lit")
                 ELSE IF B.err # "None" THEN Stop("None", B.err)
                 ELSE With(make_implication(Clause(B, A.res), Neg(A.res[1]), Elements(A.res)),
                           LAMBDA I :
                      IF I.err # "None" THEN Stop("None", I.err) ELSE solve(I)))))
       ELSE With(derive(S, R.ret), LAMBDA z :
            IF z = NoLit THEN solve(S)
            ELSE With(make_implication(S, Neg(z), R.ret), LAMBDA I :
                 IF I.err # "None" THEN Stop("None", I.err) ELSE solve(I)))))

\* Model(expr) for the formula to_cnf returned, followed by Model.solve: the
\* atoms in the order of their numbers, Model.__literals, the engine and
\* the status
Model(cnf_expr) ==
    With(AtomsIn(cnf_expr), LAMBDA atoms :
    With(make_clauses([S |-> NewEngine, counter |-> <<>>], atoms, clause_exprs(cnf_expr)),
         LAMBDA M :
    With(solve(Assignment(M.S, SortedByCount(M.counter))), LAMBDA R :
    [atoms |-> atoms, literals |-> {M.counter[n][1] : n \in 1..Len(M.counter)},
     S |-> R.S, status |-> R.status, err |-> R.err])))

\* Smtlib._visit_check_sat_node
_visit_check_sat_node ==
    /\ Ready
    /\ \E expr \in assertion_values(transactions) : \E cnf_expr \in to_cnf_values(expr) :
         IF IsRaised(cnf_expr)
         THEN /\ raised' = cnf_expr.sym.cls
              /\ UNCHANGED <<model, printed>>
         ELSE IF literal_fails(cnf_expr)
         THEN /\ raised' = "AssertionError"
              /\ UNCHANGED <<model, printed>>
         ELSE /\ Solvable(cnf_expr)
              /\ \E M \in {Model(cnf_expr)} :
                   /\ model' = <<M>>
                   /\ IF M.err # "None"
                      THEN raised' = "AssertionError" /\ UNCHANGED printed
                      ELSE raised' = "None" /\ printed' = Append(printed, <<M.status>>)
    /\ executed' = executed + 1
    /\ UNCHANGED <<transactions, ms, serial>>
    /\ UNCHANGED <<memVars, satVars, kerVars>>

\* SymbolTable.__iter__: the names in the order of sorted()
NameOrder == <<"a", "b", "f", "x", "zz">>

\* Model.eval for the variable of a declared name: "true", "false", "None",
\* or "AssertionError" when an assertion of eval or of Assignment.__getitem__
\* fails
eval(M, symbol) ==
    With(_ExprImpl(symbol, <<>>), LAMBDA expr :
    IF symbol.sort # "BOOL" THEN "AssertionError"
    ELSE IF expr \notin M.atoms THEN "None"
    ELSE With(Val(M.S, AtomIndex(M.atoms, expr)), LAMBDA value :
         CASE value = "T" -> "true"
           [] value = "F" -> "false"
           [] value = "U" -> "None"
           [] OTHER -> "AssertionError"))

\* the loop of _visit_get_model_node over the declared names from place n on:
\* the lines printed, and the exception that ended the loop
RECURSIVE get_model_loop(_, _, _, _)
get_model_loop(stack, M, n, lines) ==
    IF n > Len(NameOrder) THEN [lines |-> lines, exc |-> "None"]
    ELSE With(name_to_symbol(stack, Len(stack), NameOrder[n]), LAMBDA sym :
         IF sym = <<>> \/ sym[1].cls # "VariableSymbol"
         THEN get_model_loop(stack, M, n + 1, lines)
         ELSE With(eval(M, sym[1]), LAMBDA expr :
              IF expr = "AssertionError" THEN [lines |-> lines, exc |-> "AssertionError"]
              ELSE IF expr = "None" THEN get_model_loop(stack, M, n + 1, lines)
              ELSE get_model_loop(stack, M, n + 1, Append(lines, <<NameOrder[n], expr>>))))

\* Smtlib._visit_get_model_node
_visit_get_model_node ==
    /\ Ready
    /\ IF model = <<>> \/ model[1].status = "UNSAT"
       THEN /\ ms' = ms \cup {Message("model not available", "", 0)}
            /\ UNCHANGED <<printed, raised>>
       ELSE \E G \in {get_model_loop(transactions, model[1], 1, printed)} :
            /\ printed' = G.lines
            /\ raised' = G.exc
            /\ UNCHANGED ms
    /\ executed' = executed + 1
    /\ UNCHANGED <<transactions, model, serial>>
    /\ UNCHANGED <<memVars, satVars, kerVars>>

\* Smtlib.__init__
SmtInit ==
    /\ transactions = <<BaseChunks>>
    /\ ms = {}
    /\ printed = <<>>
    /\ model = <<>>
    /\ serial = 0
    /\ raised = "None"
    /\ executed = 0
    /\ MemIdle
    /\ SatIdle
    /\ KerIdle

\* the scripts: declarations of three constants, of a constant with the name
\* of a builtin and of a function, a macro, and assertions of terms over them
\* and over a name that is never declared
Constants == {<<"a", "BOOL">>, <<"b", "BOOL">>, <<"x", "INT">>, <<"and", "BOOL">>}
Macros ==
    {<<"f", << <<"b", "BOOL">> >>, "BOOL", CallExprNode("or", <<IdentNode("b"), IdentNode("a")>>)>>,
     <<"f", << <<"b", "BOOL">> >>, "BOOL", CallExprNode("or", <<IdentNode("zz"), IdentNode("b")>>)>>}
Terms ==
    {IdentNode("a"),
     IdentNode("x"),
     IdentNode("zz"),
     CallExprNode("not", <<IdentNode("a")>>),
     CallExprNode("or", <<IdentNode("a"), IdentNode("b")>>),
     CallExprNode("and", <<IdentNode("a"), NumberNode(1)>>),
     CallExprNode("+", <<IdentNode("x"), NumberNode(1)>>),
     LetExprNode(<< <<"x", IdentNode("a")>> >>,
                 CallExprNode("or", <<IdentNode("x"), IdentNode("b")>>)),
     LetExprNode(<< <<"x", IdentNode("a")>> >>,
                 LetExprNode(<< <<"b", IdentNode("x")>> >>,
                             CallExprNode("and", <<IdentNode("b"), IdentNode("zz")>>)))}

SmtNext ==
    \/ \E c \in Constants : _visit_declare_const_node(c[1], c[2])
    \/ _visit_declare_fun_node("f", <<"BOOL">>, "BOOL")
    \/ \E m \in Macros : _visit_define_fun_node(m[1], m[2], m[3], m[4])
    \/ \E term \in Terms : _visit_assert_node(term)
    \/ _visit_check_sat_node
    \/ _visit_get_model_node

SpecSmt == SmtInit /\ [][SmtNext]_vars

(***************************************************************************)
(* Claims about the interpreter                                            *)
(***************************************************************************)

\* C12: after any sequence of commands every expression in the assertion set
\* has sort BOOL and contains no Wrapper: an assert whose term is not of sort
\* BOOL, or is tainted, adds nothing to the set
C12_AssertionsWellTyped ==
    \A e \in assertions(transactions) : e.sym.sort = "BOOL" /\ ~has_wrappers(e)

\* the half that holds: no expression in the assertion set contains a
\* Wrapper, and one that is not of sort BOOL was reported
C12_AssertionsUntainted ==
    \A e \in assertions(transactions) :
        /\ ~has_wrappers(e)
        /\ e.sym.sort # "BOOL" =>
             Message("invalid assert command, term is not Bool", "", 0) \in ms

(***************************************************************************)
(* C13: scopes of let and define-fun                                       *)
(***************************************************************************)

\* the symbol a name stands for in the table, <<>> when the name is not
\* visible
VisibleSymbol(stack, name) == name_to_symbol(stack, Len(stack), name)

\* the names a term mentions outside the body of every let: the only names
\* the evaluation of the term can declare in the transaction it started in
RECURSIVE outer_names(_)
outer_names(node) ==
    CASE node.tag = "number" -> {}
      [] node.tag = "ident" -> {node.name}
      [] node.tag = "call" ->
           {node.name} \cup UNION {outer_names(node.args[n]) : n \in 1..Len(node.args)}
      [] node.tag = "let" ->
           UNION {outer_names(node.bindings[n][2]) : n \in 1..Len(node.bindings)}

\* what a command that evaluates a scope leaves: the depth of the
\* transaction stack it found, every name that was visible standing for the
\* symbol it stood for, and no new name but those in `allowed`
ScopeReleased(allowed) ==
    /\ Len(transactions') = Len(transactions)
    /\ \A name \in declared_names(transactions) :
           VisibleSymbol(transactions', name) = VisibleSymbol(transactions, name)
    /\ declared_names(transactions') \subseteq declared_names(transactions) \cup allowed

\* C13: after an assert whose term holds let expressions, and after a
\* define-fun, the transaction stack of the arena has the depth it had
\* before, the names of the bindings and of the formals are not visible any
\* more and every outer declaration, shadowed ones included, stands for its
\* old symbol again, whether the evaluation succeeded or reported errors
C13_ScopeAlwaysReleased ==
    [][/\ \A term \in Terms : _visit_assert_node(term) => ScopeReleased(outer_names(term))
       /\ \A m \in Macros : _visit_define_fun_node(m[1], m[2], m[3], m[4]) => ScopeReleased({m[1]})]_vars

\* C13 for the evaluations that return: the same when no exception left the
\* command (a step that leaves the table as it was has released its scopes)
C13_ScopeReleasedOnReturn ==
    [][(raised' = "None" /\ transactions' # transactions) =>
         /\ \A term \in Terms : _visit_assert_node(term) => ScopeReleased(outer_names(term))
         /\ \A m \in Macros : _visit_define_fun_node(m[1], m[2], m[3], m[4]) => ScopeReleased({m[1]})]_vars

\* C13: a command that returned has evaluated a let that shadowed an outer
\* declaration, or a define-fun whose formal shadowed one
C13_ShadowingScopeEvaluated ==
    /\ raised = "None"
    /\ Len(transactions) = 1
    /\ VisibleSymbol(transactions, "b") # <<>>
    /\ VisibleSymbol(transactions, "b")[1].cls = "VariableSymbol"
    /\ \E name \in declared_names(transactions) :
           VisibleSymbol(transactions, name)[1].cls = "MacroSymbol"

(***************************************************************************)
(* C14: get-model after a check-sat that answered SAT                      *)
(***************************************************************************)

\* the declared names that stand for a boolean variable of the solved formula
model_names(stack, M) ==
    {name \in declared_names(stack) :
        LET sym == VisibleSymbol(stack, name)[1] IN
        /\ sym.cls = "VariableSymbol"
        /\ sym.sort = "BOOL"
        /\ _ExprImpl(sym, <<>>) \in M.atoms}

\* the line get-model owes to a name of model_names: the value the final
\* assignment gives the variable
model_line(stack, M, name) ==
    LET lit == AtomIndex(M.atoms, _ExprImpl(VisibleSymbol(stack, name)[1], <<>>)) IN
    <<name, IF Val(M.S, lit) = "T" THEN "true" ELSE "false">>

\* what get-model printed in a step: the lines after those printed before
NewLines == SubSeq(printed', Len(printed) + 1, Len(printed'))

\* the step is a get-model that returned without an exception and printed
\* one line for each name of model_names, with the value of the assignment,
\* and no other line
ModelPrinted ==
    /\ raised' = "None"
    /\ Len(printed') >= Len(printed)
    /\ SubSeq(printed', 1, Len(printed)) = printed
    /\ Len(NewLines) = Cardinality(model_names(transactions, model[1]))
    /\ Elements(NewLines) =
         {model_line(transactions, model[1], name) : name \in model_names(transactions, model[1])}
    /\ \A name \in model_names(transactions, model[1]) :
         Val(model[1].S, AtomIndex(model[1].atoms,
                                   _ExprImpl(VisibleSymbol(transactions, name)[1], <<>>)))
           \in {"T", "F"}

\* the interpreter holds a model of a check-sat that answered SAT
SatAnswered == model # <<>> /\ model[1].status = "SAT"

\* C14: after a check-sat that answered SAT, get-model ends without an
\* internal failure whatever symbols are declared, and prints exactly one
\* line 'name: true' or 'name: false' for each declared boolean variable of
\* the solved formula, with the value of the final assignment; Int
\* constants, functions, macros and variables absent from the formula are
\* skipped
C14_GetModelPrintsAssignment ==
    [][(SatAnswered /\ _visit_get_model_node) => ModelPrinted]_vars

\* every variable that is declared and visible has sort BOOL
OnlyBooleanVariables ==
    \A name \in declared_names(transactions) :
        VisibleSymbol(transactions, name)[1].cls = "VariableSymbol"
            => VisibleSymbol(transactions, name)[1].sort = "BOOL"

\* C14 when no variable of another sort is declared: functions, macros,
\* wrappers and variables absent from the formula are skipped and the
\* boolean variables of the formula are printed with their values
C14_BooleanVariablesPrinted ==
    [][(SatAnswered /\ OnlyBooleanVariables /\ _visit_get_model_node) => ModelPrinted]_vars

\* C14: get-model has printed the value of a boolean variable and skipped a
\* declared boolean variable that is not in the formula
C14_ModelLinePrinted ==
    /\ raised = "None"
    /\ SatAnswered
    /\ Len(printed) >= 2
    /\ printed[Len(printed)] \in {<<"a", "true">>, <<"a", "false">>}
    /\ VisibleSymbol(transactions, "b") # <<>>
    /\ "b" \notin model_names(transactions, model[1])
    /\ "a" \in model_names(transactions, model[1])

\* C14: get-model has printed the line of a and then failed on a declared
\* Int constant, in a script that reported no error
C14_GetModelFailed ==
    /\ raised = "AssertionError"
    /\ ms = {}
    /\ printed = <<<<"SAT">>, <<"a", "true">>>>
    /\ VisibleSymbol(transactions, "x") # <<>>
    /\ VisibleSymbol(transactions, "x")[1].sort = "INT"

(***************************************************************************)
(* C35: declarations of a name that is taken                               *)
(***************************************************************************)

\* the step is a declare-const, declare-fun or define-fun command for name
DeclarationOf(name) ==
    \/ \E c \in Constants : c[1] = name /\ _visit_declare_const_node(c[1], c[2])
    \/ name = "f" /\ _visit_declare_fun_node("f", <<"BOOL">>, "BOOL")
    \/ \E m \in Macros : m[1] = name /\ _visit_define_fun_node(m[1], m[2], m[3], m[4])

\* the names a script declares
ScriptNames == {c[1] : c \in Constants} \cup {"f"} \cup {m[1] : m \in Macros}

\* the two mappings of SymbolTable, transaction by transaction
SymbolTableOf(stack) ==
    [n \in 1..Len(stack) |-> [names |-> stack[n].names, symbols |-> stack[n].symbols]]

\* the command has reported that the name is taken and has changed nothing
\* in the symbol table
Rejected(name) ==
    /\ raised' = "None"
    /\ IF is_standard_symbol(name)
       THEN Message("invalid declaration, builtin symbol", name, 0) \in ms'
       ELSE Message("invalid declaration, symbol already declared", name, 0) \in ms'
    /\ SymbolTableOf(transactions') = SymbolTableOf(transactions)

\* C35: a declare-const, declare-fun or define-fun whose name is a builtin
\* or is already bound to a user symbol in the current scope reports an
\* error and leaves the symbol table unchanged: the name keeps its earlier
\* symbol and no new name is added.
C35_TakenNameRejected ==
    [][\A name \in ScriptNames :
         (DeclarationOf(name)
            /\ (is_standard_symbol(name) \/ top_contains(transactions, name)))
         => Rejected(name)]_vars

\* the same for the commands that end without an exception
C35_TakenNameRejectedOnReturn ==
    [][\A name \in ScriptNames :
         (DeclarationOf(name) /\ raised' = "None"
            /\ (is_standard_symbol(name) \/ top_contains(transactions, name)))
         => Rejected(name)]_vars

====
